---- MODULE Spec2Model ----
(***************************************************************************)
(* A model of the OAuth2 part of ravelry-rs: the `auth login` flow of the  *)
(* CLI with its one-shot TLS callback receiver (wait_for_oauth_callback),  *)
(* the credential resolution and token refresh of Cli::build_client, and   *)
(* the expiry arithmetic of OAuth2Token.                                   *)
(*                                                                         *)
(* Text is modelled as sequences of one-character strings, so that the     *)
(* request-line parsing is computed the way the code computes it.          *)
(* Option<T> is modelled as a sequence of length 0 (None) or 1 (Some).     *)
(***************************************************************************)
EXTENDS Integers, Sequences, FiniteSets, TLC

\* --------------------------------------------------------------------------
\* Option<T>
\* --------------------------------------------------------------------------
None == <<>>

Some(x) == <<x>>

IsSome(o) == Len(o) = 1

Unwrap(o) == o[1]

\* --------------------------------------------------------------------------
\* Text helpers (str::split_whitespace, str::strip_prefix, str::split)
\* --------------------------------------------------------------------------
\* char::is_whitespace, for the characters the model's lines are made of
IsWhitespace(c) == c \in {" ", "\t", "\r", "\n"}

\* the suffix of s that starts at index i (1-based); empty when i > Len(s)
Drop(s, i) == IF i > Len(s) THEN <<>> ELSE SubSeq(s, i, Len(s))

StartsWith(s, p) == Len(p) <= Len(s) /\ SubSeq(s, 1, Len(p)) = p

\* str::strip_prefix: Some(rest) when s starts with p, None otherwise
StripPrefix(s, p) == IF StartsWith(s, p) THEN Some(Drop(s, Len(p) + 1)) ELSE None

\* the length of the longest prefix of s that holds no character of class ws
\* (ws = TRUE: stop at whitespace) or that differs from sep (ws = FALSE)
RECURSIVE RunLen(_, _, _)
RunLen(s, sep, ws) ==
    IF s = <<>> THEN 0
    ELSE IF (ws /\ IsWhitespace(s[1])) \/ (~ws /\ s[1] = sep) THEN 0
    ELSE 1 + RunLen(Tail(s), sep, ws)

\* str::split_whitespace: the maximal runs of non-whitespace characters
RECURSIVE SplitWhitespace(_)
SplitWhitespace(s) ==
    IF s = <<>> THEN <<>>
    ELSE IF IsWhitespace(s[1]) THEN SplitWhitespace(Tail(s))
    ELSE LET n == RunLen(s, " ", TRUE)
         IN  <<SubSeq(s, 1, n)>> \o SplitWhitespace(Drop(s, n + 1))

\* str::split(sep): the pieces between separators, empty pieces included;
\* the empty string splits into one empty piece
RECURSIVE Split(_, _)
Split(s, sep) ==
    LET n == RunLen(s, sep, FALSE)
    IN  IF n = Len(s) THEN <<s>>
        ELSE <<SubSeq(s, 1, n)>> \o Split(Drop(s, n + 2), sep)

\* Iterator::nth(n), 0-based
Nth(seq, n) == IF n + 1 <= Len(seq) THEN Some(seq[n + 1]) ELSE None

\* Joins pieces with sep between them (the inverse of Split on such pieces)
RECURSIVE Join(_, _)
Join(pieces, sep) ==
    IF pieces = <<>> THEN <<>>
    ELSE IF Len(pieces) = 1 THEN pieces[1]
    ELSE pieces[1] \o <<sep>> \o Join(Tail(pieces), sep)

\* --------------------------------------------------------------------------
\* The literals of the callback parser
\* --------------------------------------------------------------------------
CallbackQ == <<"/", "c", "a", "l", "l", "b", "a", "c", "k", "?">>

CallbackSlashQ == <<"/", "c", "a", "l", "l", "b", "a", "c", "k", "/", "?">>

CodeEq == <<"c", "o", "d", "e", "=">>

\* A find_map that keeps the last parameter that starts with "code="
RECURSIVE FindMapCodeLast(_)
FindMapCodeLast(params) ==
    IF params = <<>> THEN None
    ELSE LET rest == FindMapCodeLast(Tail(params))
         IN  IF IsSome(rest) THEN rest ELSE StripPrefix(params[1], CodeEq)

\* A parse that looks for "code=" at the start of the query string only
FindMapCodeFirstOnly(params) ==
    IF params = <<>> THEN None ELSE StripPrefix(params[1], CodeEq)

\* Iterator::find_map over the '&'-separated parameters: the first parameter
\* that starts with "code=", stripped of that prefix
RECURSIVE FindMapCode(_)
FindMapCode(params) ==
    IF params = <<>> THEN None
    ELSE LET r == StripPrefix(params[1], CodeEq)
         IN  IF IsSome(r) THEN r ELSE FindMapCode(Tail(params))

\* path.strip_prefix("/callback?").or_else(|| path.strip_prefix("/callback/?"))
StripCallbackPrefix(path) ==
    LET a == StripPrefix(path, CallbackQ)
    IN  IF IsSome(a) THEN a ELSE StripPrefix(path, CallbackSlashQ)

\* The parse of the request line: Some(code) or None
ExtractCode(line) ==
    LET path == Nth(SplitWhitespace(line), 1)
        query == IF IsSome(path) THEN StripCallbackPrefix(Unwrap(path)) ELSE None
    IN  IF IsSome(query) THEN FindMapCode(Split(Unwrap(query), "&")) ELSE None

\* --------------------------------------------------------------------------
\* Bounds of the model
\* --------------------------------------------------------------------------
\* The integer width the 64-bit quantities are scaled down to: u64 becomes
\* 0 .. 2^Width - 1 and i64 becomes -2^(Width-1) .. 2^(Width-1) - 1
Width == 10

\* The last instant an OffsetDateTime can hold, scaled like the integers (the
\* first one is its negation); it is far below the largest i64 number of seconds
DateMax == 480

\* The handshake loop of the callback wait has no bound of its own
MaxHandshakeFailures == 2

\* The longest query string of a callback request line, in parameters
MaxParams == 2

U64Max == 2^Width - 1

I64Max == 2^(Width - 1) - 1

DateMin == 0 - DateMax

\* --------------------------------------------------------------------------
\* Results (Result<T, E>, and a panic of the thread)
\* --------------------------------------------------------------------------
Pending == [kind |-> "Pending", val |-> <<>>]

Ok(v) == [kind |-> "Ok", val |-> v]

\* an error of variant k (of CliError or RavelryError) with message m
Err(k, m) == [kind |-> k, val |-> <<m>>]

Panic == [kind |-> "Panic", val |-> <<>>]

\* --------------------------------------------------------------------------
\* OAuth2Token
\* --------------------------------------------------------------------------
\* time::Duration::try_from(skew).unwrap_or(time::Duration::ZERO): a
\* std::time::Duration of more than i64::MAX seconds does not convert
SkewToTimeDuration(skew) == IF skew > I64Max THEN 0 ELSE skew

\* OffsetDateTime + time::Duration: None stands for the panic of the
\* operator ("resulting value is out of range")
AddDuration(t, d) ==
    IF t + d < DateMin \/ t + d > DateMax THEN None ELSE Some(t + d)

\* OAuth2Token::is_expired at the instant t: Ok(TRUE), Ok(FALSE) or Panic
is_expired(token, skew, t) ==
    IF IsSome(token.expires_at)
    THEN LET sum == AddDuration(t, SkewToTimeDuration(skew))
         IN  IF IsSome(sum) THEN Ok(Unwrap(sum) >= Unwrap(token.expires_at))
             ELSE Panic
    ELSE Ok(FALSE)

\* `secs as i64`: the two's complement reading of an unsigned number
AsI64(secs) == IF secs > I64Max THEN secs - 2^Width ELSE secs

\* RawTokenResponse::into_oauth2_token at the instant t: Ok(token) or Panic
into_oauth2_token(raw, t) ==
    LET sum == IF IsSome(raw.expires_in)
               THEN AddDuration(t, AsI64(Unwrap(raw.expires_in)))
               ELSE None
    IN  IF IsSome(raw.expires_in) /\ ~IsSome(sum) THEN Panic
        ELSE Ok([access_token |-> raw.access_token,
                 refresh_token |-> raw.refresh_token,
                 expires_at |-> sum,
                 scope |-> raw.scope,
                 token_type |-> raw.token_type])

\* --------------------------------------------------------------------------
\* Config (the profile store, config.toml)
\* --------------------------------------------------------------------------
ProfileNames == {"default", "work"}

\* Config::default(): profiles maps every name to its profile, None when the
\* HashMap has no entry for it
EmptyConfig == [current_profile |-> None, profiles |-> [n \in ProfileNames |-> None]]

\* Profile::basic
ProfileBasic(access_key, personal_key) ==
    [type |-> "Basic", access_key |-> access_key, personal_key |-> personal_key]

\* Profile::oauth2
ProfileOAuth2(client_id, client_secret, token) ==
    [type |-> "OAuth2", client_id |-> client_id, client_secret |-> client_secret,
     token |-> token]

\* Config::get_profile
get_profile(config, name) == config.profiles[name]

\* Config::set_profile
set_profile(config, name, profile) ==
    [config EXCEPT !.profiles[name] = Some(profile)]

\* Config::set_current
set_current(config, name) == [config EXCEPT !.current_profile = Some(name)]

\* --------------------------------------------------------------------------
\* Authenticators and the token endpoint
\* --------------------------------------------------------------------------
\* BasicAuth::new
BasicAuth(username, password) ==
    [kind |-> "Basic", username |-> username, password |-> password]

\* OAuth2Auth::new
OAuth2Auth(access_token) == [kind |-> "OAuth2", access_token |-> access_token]

RedirectUri == "https://localhost:8080/callback"

\* AUTH_URL and TOKEN_URL
AuthUrl == "https://www.ravelry.com/oauth2/auth"

TokenUrl == "https://www.ravelry.com/oauth2/token"

\* RavelryOAuth2Client::new
OAuth2Client(client_id, client_secret, redirect_uri) ==
    [client_id |-> client_id, client_secret |-> client_secret,
     redirect_uri |-> redirect_uri]

\* The tokens CsrfToken::new_random returns, in the order the random source
\* of the process yields them: a 128-bit token of a cryptographic generator
\* does not come twice
RandomTokens ==
    <<<<"x", "y", "z">>, <<"n", "2">>, <<"q", "7">>, <<"k", "9">>, <<"m", "4">>,
      <<"w", "5">>, <<"j", "8">>>>

RandomToken(i) == RandomTokens[i]

\* Where the random source of a process can stand when the command starts
RngSeeds == {1, 2}

\* An authorize_url whose URL carries the first token of the random source
AuthorizeUrlStaleState(oauth_client, scopes, csrf_token) ==
    [url |-> [base |-> AuthUrl,
              query |-> <<[key |-> "client_id", value |-> <<oauth_client.client_id>>],
                          [key |-> "redirect_uri", value |-> <<oauth_client.redirect_uri>>],
                          [key |-> "response_type", value |-> <<"code">>],
                          [key |-> "state", value |-> RandomTokens[1]]>>
                        \o (IF scopes # <<>>
                            THEN <<[key |-> "scope", value |-> Join(scopes, " ")]>>
                            ELSE <<>>)],
     state |-> csrf_token]

\* An exchange request that authenticates the client in the body
ExchangeRequestSecretInBody(oauth_client, c) ==
    [method |-> "POST", url |-> TokenUrl,
     basic_auth |-> [username |-> oauth_client.client_id,
                     password |-> oauth_client.client_secret],
     form |-> [grant_type |-> "authorization_code", code |-> c,
               redirect_uri |-> oauth_client.redirect_uri,
               client_id |-> oauth_client.client_id,
               client_secret |-> oauth_client.client_secret]]

\* RavelryOAuth2Client::authorize_url with the token csrf_token drawn for the
\* call: the URL, as its base and its query pairs in order, and the state
authorize_url(oauth_client, scopes, csrf_token) ==
    [url |-> [base |-> AuthUrl,
              query |-> <<[key |-> "client_id", value |-> <<oauth_client.client_id>>],
                          [key |-> "redirect_uri", value |-> <<oauth_client.redirect_uri>>],
                          [key |-> "response_type", value |-> <<"code">>],
                          [key |-> "state", value |-> csrf_token]>>
                        \o (IF scopes # <<>>
                            THEN <<[key |-> "scope", value |-> Join(scopes, " ")]>>
                            ELSE <<>>)],
     state |-> csrf_token]

\* The POST of RavelryOAuth2Client::exchange_code
ExchangeRequest(oauth_client, c) ==
    [method |-> "POST", url |-> TokenUrl,
     basic_auth |-> [username |-> oauth_client.client_id,
                     password |-> oauth_client.client_secret],
     form |-> [grant_type |-> "authorization_code", code |-> c,
               redirect_uri |-> oauth_client.redirect_uri]]

\* The POST of RavelryOAuth2Client::refresh
RefreshRequest(oauth_client, refresh_token) ==
    [method |-> "POST", url |-> TokenUrl,
     basic_auth |-> [username |-> oauth_client.client_id,
                     password |-> oauth_client.client_secret],
     form |-> [grant_type |-> "refresh_token", refresh_token |-> refresh_token]]

\* The bodies of the successful token responses the model draws from
RawTokenResponses ==
    [access_token : {"tok123"},
     token_type : {Some("Bearer")},
     expires_in : {None, Some(360), Some(I64Max), Some(U64Max)},
     refresh_token : {None, Some("r2")},
     scope : {None}]

\* reqwest::StatusCode::is_success
IsSuccess(status) == status >= 200 /\ status < 300

\* The body of a response: one that cannot be read off the connection, a text
\* that is no token response, or the JSON of a token response; content holds
\* what was sent
UnreadableBody == [kind |-> "unreadable", content |-> <<>>]

TextBody(text) == [kind |-> "text", content |-> <<text>>]

JsonBody(raw) == [kind |-> "json", content |-> <<raw>>]

\* response.text().await.unwrap_or_default()
BodyText(body) == IF body.kind = "unreadable" THEN <<>> ELSE body.content

\* What the token endpoint can answer to the commands of the CLI: no answer
\* (a transport failure), a 401 with a text, a 200 with a body that is no
\* token response, or a 200 with a token response
TokenEndpointOutcomes ==
    {[outcome |-> "transport"],
     [outcome |-> "response", status |-> 401, body |-> TextBody("invalid_grant")],
     [outcome |-> "response", status |-> 200, body |-> TextBody("<html>")]}
    \cup {[outcome |-> "response", status |-> 200, body |-> JsonBody(r)] :
            r \in RawTokenResponses}

\* A result that parses every body it can, whatever the status
TokenResultIgnoringStatus(op, resp, t) ==
    IF resp.outcome = "transport"
    THEN Err("Auth", [text |-> "Token " \o op \o " request failed",
                      cause |-> "reqwest::Error"])
    ELSE IF resp.body.kind # "json"
    THEN Err("Auth", [text |-> "Failed to parse token response",
                      cause |-> "reqwest::Error"])
    ELSE into_oauth2_token(resp.body.content[1], t)

\* What exchange_code (op = "exchange") and refresh (op = "refresh") return
\* for the answer resp received at the instant t
TokenResult(op, resp, t) ==
    IF resp.outcome = "transport"
    THEN Err("Auth", [text |-> "Token " \o op \o " request failed",
                      cause |-> "reqwest::Error"])
    ELSE IF ~IsSuccess(resp.status)
    THEN Err("Auth", [text |-> "Token " \o op \o " failed with",
                      status |-> resp.status, body |-> BodyText(resp.body)])
    ELSE IF resp.body.kind # "json"
    THEN Err("Auth", [text |-> "Failed to parse token response",
                      cause |-> "reqwest::Error"])
    ELSE into_oauth2_token(resp.body.content[1], t)

\* RavelryOAuth2Client::exchange_code once the endpoint has answered
exchange_code(resp, t) == TokenResult("exchange", resp, t)

\* RavelryOAuth2Client::refresh once the endpoint has answered
refresh(resp, t) == TokenResult("refresh", resp, t)

\* --------------------------------------------------------------------------
\* The request lines a browser (or anyone else on the loopback) can send
\* --------------------------------------------------------------------------
StateEq == <<"s", "t", "a", "t", "e", "=">>

\* The values CsrfToken::new_random draws from
Nonces == {RandomToken(i) : i \in RngSeeds}

Params ==
    {CodeEq \o <<"A", "B", "C", "1", "2", "3">>, CodeEq \o <<"B">>,
     <<"x">> \o CodeEq \o <<"Z">>}
    \cup {StateEq \o n : n \in Nonces}

\* Queries with an empty code, a parameter named code without a value, and
\* an empty parameter before or after the code
EdgeQueries ==
    {<<CodeEq>>, <<<<"c", "o", "d", "e">>>>, <<CodeEq, CodeEq \o <<"B">>>>,
     <<<<"c", "o", "d", "e">>, CodeEq \o <<"B">>>>, <<<<>>, CodeEq \o <<"B">>>>,
     <<CodeEq \o <<"B">>, <<>>>>}

Queries(max) == UNION {[1..k -> Params] : k \in 0..max} \cup EdgeQueries

OtherPrefixes ==
    {<<"/", "c", "a", "l", "l", "b", "a", "c", "k">>, <<"/", "c", "b", "?">>}

\* Paths the callback parser accepts, and a few paths it does not
CallbackPaths ==
    {p \o Join(q, "&") : p \in {CallbackQ, CallbackSlashQ}, q \in Queries(MaxParams)}

OtherPaths == {p \o Join(q, "&") : p \in OtherPrefixes, q \in Queries(1)}

ShortPaths ==
    {p \o Join(q, "&") : p \in {CallbackQ, CallbackSlashQ}, q \in Queries(1)}

Paths == CallbackPaths \cup OtherPaths

HttpVersion == <<"H", "T", "T", "P", "/", "1", ".", "1">>

CrLf == <<"\r", "\n">>

\* GET <path> HTTP/1.1, the same with other spacing and without the version,
\* a line without a method, a line without a path, and the empty line that
\* read_line leaves at end of stream
RequestLines ==
    {<<"G", "E", "T", " ">> \o p \o <<" ">> \o HttpVersion \o CrLf : p \in Paths}
    \cup {<<" ", "G", "E", "T", " ", "\t">> \o p \o CrLf : p \in ShortPaths \cup OtherPaths}
    \cup {p \o <<" ">> \o HttpVersion \o CrLf : p \in ShortPaths}
    \cup {<<>>, CrLf, <<"G", "E", "T">> \o CrLf}

NoCodeMessage == "No authorization code received in callback"

VARIABLES
    pc,             \* where the running command stands
    cli,            \* the global options of the command line
    cmd,            \* the subcommand and its arguments
    disk,           \* the Config stored in config.toml
    now,            \* OffsetDateTime::now_utc()
    csrf_state,     \* the state authorize_url returned
    rng,            \* the number of the next token of the random source
    auth_urls,      \* what the calls of authorize_url returned, in order
    responses,      \* the answers of the token endpoint, in order
    listener,       \* the TcpListener: "unbound", "listening" or "closed"
    fetches,        \* the PageParams collect_all_pages called fetch with
    all_items,      \* collect_all_pages: all_items
    current_page,   \* collect_all_pages: current_page
    pages_fetched,  \* collect_all_pages: pages_fetched
    posts,          \* the requests the API client sent
    certs,          \* the number of certificates generated
    binds,          \* the number of times the port was bound
    accepts,        \* the number of TCP connections accepted
    hs_failed,      \* the number of TLS handshakes that failed
    hs_ok,          \* the number of TLS handshakes that succeeded
    reads,          \* the number of request lines read
    request_line,   \* the request line read off the TLS stream
    code,           \* the code parsed out of the request line
    cb_result,      \* what wait_for_oauth_callback returned
    token_requests, \* the POSTs sent to the token endpoint
    saves,          \* the number of times config.toml was written
    client,         \* the RavelryClient that was built
    result          \* what the command returned

page_vars == <<fetches, all_items, current_page, pages_fetched>>

vars ==
    <<pc, cli, cmd, disk, now, csrf_state, rng, auth_urls, responses, listener, page_vars, posts, certs, binds, accepts,
      hs_failed, hs_ok, reads, request_line, code, cb_result, token_requests,
      saves, client, result>>

cb_vars ==
    <<listener, page_vars, posts, certs, binds, accepts, hs_failed, hs_ok, reads, request_line, code,
      cb_result>>

\* --------------------------------------------------------------------------
\* ravelry auth login
\* --------------------------------------------------------------------------
LoginCommands ==
    [name : {"login"}, client_id : {"cid"}, client_secret : {"csecret"},
     profile_name : ProfileNames, scopes : {<<"o", "f", "f", "l", "i", "n", "e">>}]

InitLogin ==
    /\ pc = "login"
    /\ cli = [access_key |-> None, personal_key |-> None, profile |-> None]
    /\ cmd \in LoginCommands
    /\ disk = EmptyConfig
    /\ now = 100
    /\ csrf_state = None
    /\ rng \in RngSeeds
    /\ auth_urls = <<>>
    /\ responses = <<>>
    /\ listener = "unbound"
    /\ fetches = <<>>
    /\ all_items = <<>>
    /\ current_page = 1
    /\ pages_fetched = 0
    /\ posts = <<>>
    /\ certs = 0
    /\ binds = 0
    /\ accepts = 0
    /\ hs_failed = 0
    /\ hs_ok = 0
    /\ reads = 0
    /\ request_line = None
    /\ code = None
    /\ cb_result = Pending
    /\ token_requests = <<>>
    /\ saves = 0
    /\ client = None
    /\ result = Pending

\* wait_for_oauth_callback returns r: its locals are dropped, the listener
\* with them. An error is returned on by run_auth_command (`?`).
CbReturnErr(r) ==
    /\ cb_result' = r
    /\ listener' = IF listener = "listening" THEN "closed" ELSE listener
    /\ result' = r
    /\ pc' = "done"

\* RavelryOAuth2Client::new, then authorize_url
LoginAuthorize ==
    /\ pc = "login"
    /\ \/ /\ result' = Err("Api", Err("Auth", [text |-> "Failed to build HTTP client",
                                               cause |-> "reqwest::Error"]))
          /\ pc' = "done"
          /\ UNCHANGED <<csrf_state, rng, auth_urls>>
       \/ LET oauth_client == OAuth2Client(cmd.client_id, cmd.client_secret,
                                           RedirectUri)
              issued == authorize_url(oauth_client, SplitWhitespace(cmd.scopes),
                                      RandomToken(rng))
          IN  /\ rng' = rng + 1
              /\ auth_urls' = Append(auth_urls, issued)
              /\ csrf_state' = Some(issued.state)
              /\ pc' = "browser"
              /\ UNCHANGED result
    /\ UNCHANGED <<cli, cmd, responses, disk, now, cb_vars, token_requests, saves,
                   client>>

\* A browser that cannot be opened ends the login
LoginOpenBrowserAbort ==
    /\ pc = "browser"
    /\ \/ pc' = "cert" /\ UNCHANGED result
       \/ pc' = "done" /\ result' = Err("Other", "Failed to open browser")
    /\ UNCHANGED <<cli, cmd, rng, auth_urls, responses, disk, now, csrf_state,
                   cb_vars, token_requests, saves, client>>

\* open::that(auth_url): a failure is printed and the flow goes on
LoginOpenBrowser ==
    /\ pc = "browser"
    /\ pc' = "cert"
    /\ UNCHANGED <<cli, cmd, rng, auth_urls, responses, disk, now, csrf_state, cb_vars, token_requests, saves,
                   client, result>>

\* generate_simple_self_signed, the PEM round trip of the certificate and
\* its key, ServerConfig: each of them can fail
CbGenerateCert ==
    /\ pc = "cert"
    /\ certs' = certs + 1
    /\ \/ /\ pc' = "bind"
          /\ UNCHANGED <<cb_result, listener, result>>
       \/ \E m \in {"Failed to generate certificate", "Failed to parse private key",
                    "No private key found", "Failed to build TLS config"} :
            CbReturnErr(Err("Other", m))
    /\ UNCHANGED <<cli, cmd, rng, auth_urls, responses, disk, now, csrf_state,
                   page_vars, posts, binds, accepts, hs_failed, hs_ok, reads, request_line, code,
                   token_requests, saves, client>>

\* A bind that is tried again when the port is in use
CbBindRetry ==
    /\ pc = "bind"
    /\ binds < 2
    /\ binds' = binds + 1
    /\ \/ /\ listener' = "listening"
          /\ pc' = "accept"
          /\ UNCHANGED <<cb_result, result>>
       \/ UNCHANGED <<pc, listener, cb_result, result>>
    /\ UNCHANGED <<cli, cmd, rng, auth_urls, responses, disk, now, csrf_state,
                   page_vars, posts, certs, accepts, hs_failed, hs_ok, reads, request_line, code,
                   token_requests, saves, client>>

\* TcpListener::bind("127.0.0.1:8080")
CbBind ==
    /\ pc = "bind"
    /\ binds' = binds + 1
    /\ \/ /\ listener' = "listening"
          /\ pc' = "accept"
          /\ UNCHANGED <<cb_result, result>>
       \/ CbReturnErr(Err("Io", "bind"))
    /\ UNCHANGED <<cli, cmd, rng, auth_urls, responses, disk, now, csrf_state, page_vars, posts, certs, accepts, hs_failed, hs_ok,
                   reads, request_line, code, token_requests, saves, client>>

\* An accept whose I/O error is swallowed like a failed handshake
CbAcceptRetry ==
    /\ pc = "accept"
    /\ accepts < 3
    /\ accepts' = accepts + 1
    /\ \/ pc' = "handshake"
       \/ pc' = "accept"
    /\ UNCHANGED <<cb_result, listener, result>>
    /\ UNCHANGED <<cli, cmd, rng, auth_urls, responses, disk, now, csrf_state,
                   page_vars, posts, certs, binds, hs_failed, hs_ok, reads,
                   request_line, code, token_requests, saves, client>>

\* listener.accept()
CbAccept ==
    /\ pc = "accept"
    /\ \/ /\ accepts' = accepts + 1
          /\ pc' = "handshake"
          /\ UNCHANGED <<cb_result, listener, result>>
       \/ /\ CbReturnErr(Err("Io", "accept"))
          /\ UNCHANGED accepts
    /\ UNCHANGED <<cli, cmd, rng, auth_urls, responses, disk, now, csrf_state, page_vars, posts, certs, binds, hs_failed, hs_ok,
                   reads, request_line, code, token_requests, saves, client>>

\* A handshake loop that does not break on success
CbHandshakeNoBreak ==
    /\ pc = "handshake"
    /\ \/ /\ hs_ok < 2
          /\ hs_ok' = hs_ok + 1
          /\ UNCHANGED hs_failed
       \/ /\ hs_failed < MaxHandshakeFailures
          /\ hs_failed' = hs_failed + 1
          /\ UNCHANGED hs_ok
    /\ pc' = "accept"
    /\ UNCHANGED <<cli, cmd, rng, auth_urls, responses, disk, now, csrf_state, listener, page_vars, posts, certs, binds, accepts,
                   reads, request_line, code, cb_result, token_requests, saves,
                   client, result>>

\* acceptor.accept(tcp_stream): break on success, continue on failure
CbHandshake ==
    /\ pc = "handshake"
    /\ \/ /\ hs_ok' = hs_ok + 1
          /\ pc' = "read"
          /\ UNCHANGED hs_failed
       \/ /\ hs_failed < MaxHandshakeFailures
          /\ hs_failed' = hs_failed + 1
          /\ pc' = "accept"
          /\ UNCHANGED hs_ok
    /\ UNCHANGED <<cli, cmd, rng, auth_urls, responses, disk, now, csrf_state, listener, page_vars, posts, certs, binds, accepts,
                   reads, request_line, code, cb_result, token_requests, saves,
                   client, result>>

\* A wait that goes back to accepting when the line carries no code
CbReadRequestLineRetry ==
    /\ pc = "read"
    /\ \/ /\ CbReturnErr(Err("Io", "read_line"))
          /\ UNCHANGED <<reads, request_line, code>>
       \/ \E line \in RequestLines :
            /\ reads' = reads + 1
            /\ request_line' = Some(line)
            /\ code' = ExtractCode(line)
            /\ pc' = IF IsSome(code') THEN "write" ELSE "accept"
            /\ UNCHANGED <<cb_result, listener, result>>
    /\ UNCHANGED <<cli, cmd, rng, auth_urls, responses, disk, now, csrf_state, page_vars, posts, certs, binds, accepts, hs_failed,
                   hs_ok, token_requests, saves, client>>

\* reader.read_line, then the parse of the line
CbReadRequestLine ==
    /\ pc = "read"
    /\ \/ /\ CbReturnErr(Err("Io", "read_line"))
          /\ UNCHANGED <<reads, request_line, code>>
       \/ \E line \in RequestLines :
            /\ reads' = reads + 1
            /\ request_line' = Some(line)
            /\ code' = ExtractCode(line)
            /\ IF IsSome(code')
               THEN pc' = "write" /\ UNCHANGED <<cb_result, listener, result>>
               ELSE CbReturnErr(Err("MissingCredentials", NoCodeMessage))
    /\ UNCHANGED <<cli, cmd, rng, auth_urls, responses, disk, now, csrf_state, page_vars, posts, certs, binds, accepts, hs_failed,
                   hs_ok, token_requests, saves, client>>

\* writer.write_all(response); on success the wait returns the code and
\* run_auth_command sends it to the token endpoint (exchange_code)
CbWriteResponse ==
    /\ pc = "write"
    /\ \/ /\ CbReturnErr(Err("Io", "write_all"))
          /\ UNCHANGED token_requests
       \/ /\ cb_result' = Ok(Unwrap(code))
          /\ listener' = "closed"
          /\ token_requests' =
               Append(token_requests,
                      ExchangeRequest(OAuth2Client(cmd.client_id, cmd.client_secret,
                                                   RedirectUri),
                                      Unwrap(code)))
          /\ pc' = "exchange"
          /\ UNCHANGED result
    /\ UNCHANGED <<cli, cmd, rng, auth_urls, responses, disk, now, csrf_state, page_vars, posts, certs, binds, accepts, hs_failed,
                   hs_ok, reads, request_line, code, saves, client>>

\* Config::load, set_profile, set_current, Config::save of auth login
LoginSave(token) ==
    \/ /\ result' = Err("Config", "load")
       /\ UNCHANGED <<disk, saves>>
    \/ /\ result' = Err("Config", "save")
       /\ UNCHANGED <<disk, saves>>
    \/ /\ disk' = set_current(
                    set_profile(disk, cmd.profile_name,
                                ProfileOAuth2(cmd.client_id, cmd.client_secret, token)),
                    cmd.profile_name)
       /\ saves' = saves + 1
       /\ result' = Ok(<<>>)

\* The answer of the token endpoint to exchange_code, and the rest of auth login
LoginExchangeResponse ==
    /\ pc = "exchange"
    /\ pc' = "done"
    /\ \E resp \in TokenEndpointOutcomes :
         /\ responses' = Append(responses, resp)
         /\ LET t == exchange_code(resp, now)
            IN  IF t.kind = "Ok" THEN LoginSave(t.val)
                ELSE IF t.kind = "Panic"
                THEN result' = Panic /\ UNCHANGED <<disk, saves>>
                ELSE /\ result' = Err("Api", t)
                     /\ UNCHANGED <<disk, saves>>
    /\ UNCHANGED <<cli, cmd, rng, auth_urls, now, csrf_state, cb_vars,
                   token_requests, client>>

NextLogin ==
    \/ LoginAuthorize
    \/ LoginOpenBrowser
    \/ CbGenerateCert
    \/ CbBind
    \/ CbAccept
    \/ CbHandshake
    \/ CbReadRequestLine
    \/ CbWriteResponse
    \/ LoginExchangeResponse

SpecLogin == InitLogin /\ [][NextLogin]_vars

\* --------------------------------------------------------------------------
\* Cli::build_client
\* --------------------------------------------------------------------------
\* The skew build_client passes to is_expired, in seconds
SkewSecs == 300

NoCredentialsMessage ==
    "No credentials. Use --access-key/--personal-key, --profile, or run 'ravelry auth basic'"

ReLoginMessage ==
    "OAuth2 token expired and no refresh token available. Please re-login."

\* The tokens a stored OAuth2 profile can hold when build_client starts: no
\* expiry, expired, expiring within the skew (in 240 s), expiring at the skew
\* exactly, and expiring later
StoredTokens ==
    [access_token : {"old"},
     refresh_token : {None, Some("r1")},
     expires_at : {None, Some(50), Some(340), Some(400), Some(401)},
     scope : {Some("offline")},
     token_type : {Some("Bearer")}]

StoredProfiles ==
    {ProfileBasic("akey", "pkey")}
    \cup {ProfileOAuth2("cid", "csecret", t) : t \in StoredTokens}

\* The configs the commands of the CLI leave in config.toml: "work" holds one
\* fixed OAuth2 profile or none, and the current profile is unset or exists
StoredConfigs ==
    {c \in [current_profile : {None} \cup {Some(n) : n \in ProfileNames},
            profiles : [ProfileNames -> {None} \cup {Some(p) : p \in StoredProfiles}]] :
        /\ IsSome(c.current_profile) => IsSome(c.profiles[Unwrap(c.current_profile)])
        /\ c.profiles["work"] \in
             {None, Some(ProfileBasic("akey", "pkey")),
              Some(ProfileOAuth2("cid", "csecret",
                     [access_token |-> "old", refresh_token |-> Some("r1"),
                      expires_at |-> Some(50), scope |-> Some("offline"),
                      token_type |-> Some("Bearer")]))}}

CliOptions ==
    [access_key : {None, Some("AK")},
     personal_key : {None, Some("PK")},
     profile : {None} \cup {Some(n) : n \in ProfileNames}]

\* A command that builds a client (whoami stands for all of them), or
\* auth refresh with or without --profile-name
ClientCommands ==
    {[name |-> "whoami"]}
    \cup {[name |-> "refresh", profile_name |-> o] :
            o \in {None} \cup {Some(n) : n \in ProfileNames}}

InitClient ==
    /\ cmd \in ClientCommands
    /\ pc = IF cmd.name = "whoami" THEN "build_client" ELSE "auth_refresh"
    /\ cli \in CliOptions
    /\ disk \in StoredConfigs
    /\ now = 100
    /\ csrf_state = None
    /\ rng = 1
    /\ auth_urls = <<>>
    /\ responses = <<>>
    /\ listener = "unbound"
    /\ fetches = <<>>
    /\ all_items = <<>>
    /\ current_page = 1
    /\ pages_fetched = 0
    /\ posts = <<>>
    /\ certs = 0
    /\ binds = 0
    /\ accepts = 0
    /\ hs_failed = 0
    /\ hs_ok = 0
    /\ reads = 0
    /\ request_line = None
    /\ code = None
    /\ cb_result = Pending
    /\ token_requests = <<>>
    /\ saves = 0
    /\ client = None
    /\ result = Pending

\* A choice of profile that falls back to the current profile when --profile
\* names no stored profile
ProfileNameFallingBack(options, config) ==
    IF IsSome(options.profile) /\ IsSome(config.profiles[Unwrap(options.profile)])
    THEN options.profile
    ELSE config.current_profile

\* self.profile.as_deref().or(config.current_profile.as_deref())
ProfileName(options, config) ==
    IF IsSome(options.profile) THEN options.profile ELSE config.current_profile

\* profile_name.and_then(|name| config.get_profile(name))
SelectedProfile(options, config) ==
    LET name == ProfileName(options, config)
    IN  IF IsSome(name) THEN get_profile(config, Unwrap(name)) ELSE None

\* RavelryClient::builder(auth).debug(..).build()?: the client, or the error
\* of building it
BuildWith(auth) ==
    \/ client' = Some([auth |-> auth]) /\ result' = Ok(<<>>)
    \/ /\ client' = None
       /\ result' = Err("Api", Err("Http", [text |-> "builder error",
                                            cause |-> "reqwest::Error"]))

\* A decision that uses an expired token that cannot be refreshed
TokenDecisionUseStale(token, t) ==
    LET expired == is_expired(token, SkewSecs, t)
    IN  IF expired.kind = "Panic" THEN "panic"
        ELSE IF ~expired.val THEN "use"
        ELSE IF IsSome(token.refresh_token) THEN "refresh"
        ELSE "use"

\* What build_client does with the token of an OAuth2 profile at the instant
\* t: "use" it, "refresh" it, fail with the "relogin" error, or "panic"
TokenDecision(token, t) ==
    LET expired == is_expired(token, SkewSecs, t)
    IN  IF expired.kind = "Panic" THEN "panic"
        ELSE IF ~expired.val THEN "use"
        ELSE IF IsSome(token.refresh_token) THEN "refresh"
        ELSE "relogin"

\* build_client up to its return or, for an expired OAuth2 token with a
\* refresh token, up to the POST of the refresh
BuildClientBegin ==
    /\ pc = "build_client"
    /\ IF IsSome(cli.access_key) /\ IsSome(cli.personal_key)
       THEN /\ BuildWith(BasicAuth(Unwrap(cli.access_key), Unwrap(cli.personal_key)))
            /\ pc' = "done"
            /\ UNCHANGED token_requests
       ELSE \/ /\ result' = Err("Config", "load")
               /\ pc' = "done"
               /\ UNCHANGED <<client, token_requests>>
            \/ LET profile == SelectedProfile(cli, disk)
               IN  IF ~IsSome(profile)
                   THEN /\ result' = Err("MissingCredentials", NoCredentialsMessage)
                        /\ pc' = "done"
                        /\ UNCHANGED <<client, token_requests>>
                   ELSE IF Unwrap(profile).type = "Basic"
                   THEN /\ BuildWith(BasicAuth(Unwrap(profile).access_key,
                                               Unwrap(profile).personal_key))
                        /\ pc' = "done"
                        /\ UNCHANGED token_requests
                   ELSE LET token == Unwrap(profile).token
                            decision == TokenDecision(token, now)
                        IN  IF decision = "panic"
                            THEN /\ result' = Panic
                                 /\ pc' = "done"
                                 /\ UNCHANGED <<client, token_requests>>
                            ELSE IF decision = "use"
                            THEN /\ BuildWith(OAuth2Auth(token.access_token))
                                 /\ pc' = "done"
                                 /\ UNCHANGED token_requests
                            ELSE IF decision = "relogin"
                            THEN /\ result' = Err("MissingCredentials", ReLoginMessage)
                                 /\ pc' = "done"
                                 /\ UNCHANGED <<client, token_requests>>
                            ELSE \/ /\ result' = Err("Api", Err("Auth",
                                                     [text |-> "Failed to build HTTP client",
                                                      cause |-> "reqwest::Error"]))
                                    /\ pc' = "done"
                                    /\ UNCHANGED <<client, token_requests>>
                                 \/ /\ token_requests' =
                                         Append(token_requests,
                                                RefreshRequest(
                                                  OAuth2Client(Unwrap(profile).client_id,
                                                               Unwrap(profile).client_secret,
                                                               RedirectUri),
                                                  Unwrap(token.refresh_token)))
                                    /\ pc' = "refresh"
                                    /\ UNCHANGED <<client, result>>
    /\ UNCHANGED <<cli, cmd, rng, auth_urls, responses, disk, now, csrf_state, cb_vars, saves>>

\* A build_client that keeps the stored refresh token and scope when the
\* response has none
BuildClientSaveMerging(token) ==
    LET name == Unwrap(ProfileName(cli, disk))
        profile == Unwrap(get_profile(disk, name))
        merged == [token EXCEPT
                     !.refresh_token = IF IsSome(token.refresh_token)
                                       THEN token.refresh_token
                                       ELSE profile.token.refresh_token,
                     !.scope = IF IsSome(token.scope) THEN token.scope
                               ELSE profile.token.scope]
    IN  \/ /\ result' = Err("Config", "load")
           /\ UNCHANGED <<disk, saves, client>>
        \/ /\ result' = Err("Config", "save")
           /\ UNCHANGED <<disk, saves, client>>
        \/ /\ disk' = set_profile(disk, name,
                                  ProfileOAuth2(profile.client_id,
                                                profile.client_secret, merged))
           /\ saves' = saves + 1
           /\ BuildWith(OAuth2Auth(token.access_token))

\* A build_client that saves the refreshed token and goes on with the old one
BuildClientSaveStale(token) ==
    LET name == Unwrap(ProfileName(cli, disk))
        profile == Unwrap(get_profile(disk, name))
    IN  \/ /\ result' = Err("Config", "load")
           /\ UNCHANGED <<disk, saves, client>>
        \/ /\ result' = Err("Config", "save")
           /\ UNCHANGED <<disk, saves, client>>
        \/ /\ disk' = set_profile(disk, name,
                                  ProfileOAuth2(profile.client_id,
                                                profile.client_secret, token))
           /\ saves' = saves + 1
           /\ BuildWith(OAuth2Auth(profile.token.access_token))

\* Config::load, set_profile, Config::save of the refreshed token, then the
\* client built with its access token
BuildClientSave(token) ==
    LET name == Unwrap(ProfileName(cli, disk))
        profile == Unwrap(get_profile(disk, name))
    IN  \/ /\ result' = Err("Config", "load")
           /\ UNCHANGED <<disk, saves, client>>
        \/ /\ result' = Err("Config", "save")
           /\ UNCHANGED <<disk, saves, client>>
        \/ /\ disk' = set_profile(disk, name,
                                  ProfileOAuth2(profile.client_id,
                                                profile.client_secret, token))
           /\ saves' = saves + 1
           /\ BuildWith(OAuth2Auth(token.access_token))

\* The answer of the token endpoint to refresh, and the rest of build_client
BuildClientRefreshResponse ==
    /\ pc = "refresh"
    /\ pc' = "done"
    /\ \E resp \in TokenEndpointOutcomes :
         /\ responses' = Append(responses, resp)
         /\ LET t == refresh(resp, now)
            IN  IF t.kind = "Ok" THEN BuildClientSave(t.val)
                ELSE IF t.kind = "Panic"
                THEN result' = Panic /\ UNCHANGED <<disk, saves, client>>
                ELSE /\ result' = Err("Api", t)
                     /\ UNCHANGED <<disk, saves, client>>
    /\ UNCHANGED <<cli, cmd, rng, auth_urls, now, csrf_state, cb_vars,
                   token_requests>>

\* profile_name.or(cli.profile).or(config.current_profile) of auth refresh
RefreshProfileName(command, options, config) ==
    IF IsSome(command.profile_name) THEN command.profile_name
    ELSE IF IsSome(options.profile) THEN options.profile
    ELSE config.current_profile

NoProfileMessage == "No profile specified. Use --profile-name or set a current profile."

NoRefreshTokenMessage ==
    "OAuth2 profile has no refresh token. Re-login with 'offline' scope."

\* auth refresh up to its return or to the request it sends
AuthRefreshBegin ==
    /\ pc = "auth_refresh"
    /\ \/ /\ result' = Err("Config", "load")
          /\ pc' = "done"
          /\ UNCHANGED token_requests
       \/ LET name == RefreshProfileName(cmd, cli, disk)
              profile == IF IsSome(name) THEN get_profile(disk, Unwrap(name)) ELSE None
          IN  IF ~IsSome(name)
              THEN /\ result' = Err("MissingCredentials", NoProfileMessage)
                   /\ pc' = "done"
                   /\ UNCHANGED token_requests
              ELSE IF ~IsSome(profile)
              THEN /\ result' = Err("Other", "Profile not found.")
                   /\ pc' = "done"
                   /\ UNCHANGED token_requests
              ELSE IF Unwrap(profile).type = "Basic"
              THEN /\ result' = Err("Other", "Cannot refresh Basic auth profile. Refresh is only for OAuth2.")
                   /\ pc' = "done"
                   /\ UNCHANGED token_requests
              ELSE IF ~IsSome(Unwrap(profile).token.refresh_token)
              THEN /\ result' = Err("MissingCredentials", NoRefreshTokenMessage)
                   /\ pc' = "done"
                   /\ UNCHANGED token_requests
              ELSE \/ /\ result' = Err("Api", Err("Auth",
                                         [text |-> "Failed to build HTTP client",
                                          cause |-> "reqwest::Error"]))
                      /\ pc' = "done"
                      /\ UNCHANGED token_requests
                   \/ /\ token_requests' =
                           Append(token_requests,
                                  RefreshRequest(
                                    OAuth2Client(Unwrap(profile).client_id,
                                                 Unwrap(profile).client_secret,
                                                 RedirectUri),
                                    Unwrap(Unwrap(profile).token.refresh_token)))
                      /\ pc' = "auth_refresh_wait"
                      /\ UNCHANGED result
    /\ UNCHANGED <<cli, cmd, rng, auth_urls, responses, disk, now, csrf_state,
                   cb_vars, saves, client>>

\* An auth refresh that makes the refreshed profile the current one, as
\* auth login does
AuthRefreshResponseSetsCurrent ==
    /\ pc = "auth_refresh_wait"
    /\ pc' = "done"
    /\ \E resp \in TokenEndpointOutcomes :
         /\ responses' = Append(responses, resp)
         /\ LET t == refresh(resp, now)
                name == Unwrap(RefreshProfileName(cmd, cli, disk))
                profile == Unwrap(get_profile(disk, name))
            IN  IF t.kind = "Ok"
                THEN \/ /\ result' = Err("Config", "save")
                        /\ UNCHANGED <<disk, saves>>
                     \/ /\ disk' = set_current(
                                       set_profile(disk, name,
                                                   ProfileOAuth2(profile.client_id,
                                                                 profile.client_secret,
                                                                 t.val)),
                                       name)
                        /\ saves' = saves + 1
                        /\ result' = Ok(<<>>)
                ELSE IF t.kind = "Panic"
                THEN result' = Panic /\ UNCHANGED <<disk, saves>>
                ELSE /\ result' = Err("Api", t)
                     /\ UNCHANGED <<disk, saves>>
    /\ UNCHANGED <<cli, cmd, rng, auth_urls, now, csrf_state, cb_vars,
                   token_requests, client>>

\* The answer of the token endpoint to refresh, and the rest of auth refresh:
\* set_profile on the config it loaded, Config::save
AuthRefreshResponse ==
    /\ pc = "auth_refresh_wait"
    /\ pc' = "done"
    /\ \E resp \in TokenEndpointOutcomes :
         /\ responses' = Append(responses, resp)
         /\ LET t == refresh(resp, now)
                name == Unwrap(RefreshProfileName(cmd, cli, disk))
                profile == Unwrap(get_profile(disk, name))
            IN  IF t.kind = "Ok"
                THEN \/ /\ result' = Err("Config", "save")
                        /\ UNCHANGED <<disk, saves>>
                     \/ /\ disk' = set_profile(disk, name,
                                               ProfileOAuth2(profile.client_id,
                                                             profile.client_secret,
                                                             t.val))
                        /\ saves' = saves + 1
                        /\ result' = Ok(<<>>)
                ELSE IF t.kind = "Panic"
                THEN result' = Panic /\ UNCHANGED <<disk, saves>>
                ELSE /\ result' = Err("Api", t)
                     /\ UNCHANGED <<disk, saves>>
    /\ UNCHANGED <<cli, cmd, rng, auth_urls, now, csrf_state, cb_vars,
                   token_requests, client>>

NextClient ==
    \/ BuildClientBegin
    \/ BuildClientRefreshResponse
    \/ AuthRefreshBegin
    \/ AuthRefreshResponse

SpecClient == InitClient /\ [][NextClient]_vars

\* --------------------------------------------------------------------------
\* The token model called on its own: OAuth2Token::is_expired and
\* RawTokenResponse::into_oauth2_token on every input of the bounded ranges
\* --------------------------------------------------------------------------
Instants == {100, 160}

ExpiryInstants == {50, 100, 340, 400, 401, DateMax}

\* OAuth2Token values, their expires_at absent or one of ExpiryInstants
Tokens ==
    [access_token : {"old"},
     refresh_token : {None, Some("r1")},
     expires_at : {None} \cup {Some(e) : e \in ExpiryInstants},
     scope : {None},
     token_type : {Some("Bearer")}]

\* std::time::Duration values, in whole seconds
Skews == 0..U64Max

\* RawTokenResponse values, expires_in absent or any u64
RawResponsesAnyLifetime ==
    [access_token : {"tok123"},
     token_type : {None, Some("Bearer")},
     expires_in : {None} \cup {Some(n) : n \in 0..U64Max},
     refresh_token : {None, Some("r2")},
     scope : {None, Some("offline")}]

TokenCalls ==
    [name : {"is_expired"}, token : Tokens, skew : Skews]
    \cup [name : {"into_oauth2_token"}, raw : RawResponsesAnyLifetime]

InitToken ==
    /\ pc = "call"
    /\ cli = [access_key |-> None, personal_key |-> None, profile |-> None]
    /\ cmd \in TokenCalls
    /\ disk = EmptyConfig
    /\ now \in Instants
    /\ csrf_state = None
    /\ rng = 1
    /\ auth_urls = <<>>
    /\ responses = <<>>
    /\ listener = "unbound"
    /\ fetches = <<>>
    /\ all_items = <<>>
    /\ current_page = 1
    /\ pages_fetched = 0
    /\ posts = <<>>
    /\ certs = 0
    /\ binds = 0
    /\ accepts = 0
    /\ hs_failed = 0
    /\ hs_ok = 0
    /\ reads = 0
    /\ request_line = None
    /\ code = None
    /\ cb_result = Pending
    /\ token_requests = <<>>
    /\ saves = 0
    /\ client = None
    /\ result = Pending

\* token.is_expired(skew)
CallIsExpired ==
    /\ pc = "call"
    /\ cmd.name = "is_expired"
    /\ result' = is_expired(cmd.token, cmd.skew, now)
    /\ pc' = "done"
    /\ UNCHANGED <<cli, cmd, rng, auth_urls, responses, disk, now, csrf_state, cb_vars, token_requests,
                   saves, client>>

\* raw.into_oauth2_token()
CallIntoOAuth2Token ==
    /\ pc = "call"
    /\ cmd.name = "into_oauth2_token"
    /\ result' = into_oauth2_token(cmd.raw, now)
    /\ pc' = "done"
    /\ UNCHANGED <<cli, cmd, rng, auth_urls, responses, disk, now, csrf_state, cb_vars, token_requests,
                   saves, client>>

NextToken ==
    \/ CallIsExpired
    \/ CallIntoOAuth2Token

SpecToken == InitToken /\ [][NextToken]_vars

\* --------------------------------------------------------------------------
\* RavelryOAuth2Client called on its own: authorize_url, exchange_code and
\* refresh, with every answer of the token endpoint
\* --------------------------------------------------------------------------
MaxAuthorizeCalls == 2

OAuth2Clients ==
    {OAuth2Client("cid", "csecret", uri) :
       uri \in {RedirectUri, "https://app.example/cb"}}

ScopeLists ==
    {<<>>, <<<<"o", "f", "f", "l", "i", "n", "e">>>>,
     <<<<"o", "f", "f", "l", "i", "n", "e">>, <<"f", "o", "r", "u", "m">>>>}

Statuses == {200, 204, 302, 400, 401, 500}

Bodies ==
    {[kind |-> "unreadable", content |-> <<"invalid_grant">>],
     TextBody("invalid_grant"), TextBody("")}
    \cup {JsonBody(r) : r \in {x \in RawTokenResponses : x.expires_in # Some(U64Max)}}

\* Everything the token endpoint, or the network before it, can answer
TokenEndpointAnswers ==
    {[outcome |-> "transport"]}
    \cup [outcome : {"response"}, status : Statuses, body : Bodies]

OAuth2Calls ==
    [name : {"authorize_url"}, oauth_client : OAuth2Clients, scopes : ScopeLists]
    \cup [name : {"exchange_code"}, oauth_client : OAuth2Clients,
          code : {<<"B">>, <<>>}]
    \cup [name : {"refresh"}, oauth_client : OAuth2Clients,
          refresh_token : {"r1", "r2"}]

InitOAuth2 ==
    /\ pc = "oauth2"
    /\ cli = [access_key |-> None, personal_key |-> None, profile |-> None]
    /\ cmd \in OAuth2Calls
    /\ disk = EmptyConfig
    /\ now = 100
    /\ csrf_state = None
    /\ rng \in RngSeeds
    /\ auth_urls = <<>>
    /\ responses = <<>>
    /\ listener = "unbound"
    /\ fetches = <<>>
    /\ all_items = <<>>
    /\ current_page = 1
    /\ pages_fetched = 0
    /\ posts = <<>>
    /\ certs = 0
    /\ binds = 0
    /\ accepts = 0
    /\ hs_failed = 0
    /\ hs_ok = 0
    /\ reads = 0
    /\ request_line = None
    /\ code = None
    /\ cb_result = Pending
    /\ token_requests = <<>>
    /\ saves = 0
    /\ client = None
    /\ result = Pending

\* oauth_client.authorize_url(scopes), which the caller can call again
CallAuthorizeUrl ==
    /\ pc = "oauth2"
    /\ cmd.name = "authorize_url"
    /\ Len(auth_urls) < MaxAuthorizeCalls
    /\ LET issued == authorize_url(cmd.oauth_client, cmd.scopes, RandomToken(rng))
       IN  /\ rng' = rng + 1
           /\ auth_urls' = Append(auth_urls, issued)
           /\ csrf_state' = Some(issued.state)
           /\ result' = Ok(issued)
    /\ UNCHANGED <<pc, cli, cmd, responses, disk, now, cb_vars, token_requests,
                   saves, client>>

\* oauth_client.exchange_code(code) up to .send().await
CallExchangeCode ==
    /\ pc = "oauth2"
    /\ cmd.name = "exchange_code"
    /\ token_requests' =
         Append(token_requests, ExchangeRequest(cmd.oauth_client, cmd.code))
    /\ pc' = "await_exchange"
    /\ UNCHANGED <<cli, cmd, rng, auth_urls, responses, disk, now, csrf_state,
                   cb_vars, saves, client, result>>

\* A refresh that sends its request again when the endpoint says 500
RefreshResponseRetry ==
    /\ pc = "await_refresh"
    /\ \E resp \in TokenEndpointAnswers :
         /\ responses' = Append(responses, resp)
         /\ IF resp.outcome = "response" /\ resp.status = 500 /\ Len(responses) = 0
            THEN /\ token_requests' = Append(token_requests, token_requests[1])
                 /\ UNCHANGED <<pc, result>>
            ELSE /\ result' = refresh(resp, now)
                 /\ pc' = "done"
                 /\ UNCHANGED token_requests
    /\ UNCHANGED <<cli, cmd, rng, auth_urls, disk, now, csrf_state, cb_vars,
                   saves, client>>

\* The rest of exchange_code, from the answer of the endpoint to the return
ExchangeCodeResponse ==
    /\ pc = "await_exchange"
    /\ \E resp \in TokenEndpointAnswers :
         /\ responses' = Append(responses, resp)
         /\ result' = exchange_code(resp, now)
    /\ pc' = "done"
    /\ UNCHANGED <<cli, cmd, rng, auth_urls, disk, now, csrf_state, cb_vars,
                   token_requests, saves, client>>

\* oauth_client.refresh(refresh_token) up to .send().await
CallRefresh ==
    /\ pc = "oauth2"
    /\ cmd.name = "refresh"
    /\ token_requests' =
         Append(token_requests, RefreshRequest(cmd.oauth_client, cmd.refresh_token))
    /\ pc' = "await_refresh"
    /\ UNCHANGED <<cli, cmd, rng, auth_urls, responses, disk, now, csrf_state,
                   cb_vars, saves, client, result>>

\* The rest of refresh, from the answer of the endpoint to the return
RefreshResponse ==
    /\ pc = "await_refresh"
    /\ \E resp \in TokenEndpointAnswers :
         /\ responses' = Append(responses, resp)
         /\ result' = refresh(resp, now)
    /\ pc' = "done"
    /\ UNCHANGED <<cli, cmd, rng, auth_urls, disk, now, csrf_state, cb_vars,
                   token_requests, saves, client>>

NextOAuth2 ==
    \/ CallAuthorizeUrl
    \/ CallExchangeCode
    \/ ExchangeCodeResponse
    \/ CallRefresh
    \/ RefreshResponse

SpecOAuth2 == InitOAuth2 /\ [][NextOAuth2]_vars

\* --------------------------------------------------------------------------
\* The authenticators and their Debug output
\* --------------------------------------------------------------------------
Redacted == "[REDACTED]"

\* <str as Debug>::fmt: the text between double quotes
DebugStr(text) == <<"\"", text, "\"">>

\* A Debug output that shows the password, as #[derive(Debug)] would
DebugBasicAuthDerived(auth) ==
    [name |-> "BasicAuth",
     fields |-> <<[name |-> "username", value |-> DebugStr(auth.username)],
                  [name |-> "password", value |-> DebugStr(auth.password)]>>]

\* impl Debug for BasicAuth: the struct name and its fields in order
DebugBasicAuth(auth) ==
    [name |-> "BasicAuth",
     fields |-> <<[name |-> "username", value |-> DebugStr(auth.username)],
                  [name |-> "password", value |-> DebugStr(Redacted)]>>]

\* impl Debug for OAuth2Auth
DebugOAuth2Auth(auth) ==
    [name |-> "OAuth2Auth",
     fields |-> <<[name |-> "access_token", value |-> DebugStr(Redacted)]>>]

Usernames == {"akey", "bob", "", "[REDACTED]"}

Secrets == {"pkey", "s3cret", "", "akey", "[REDACTED]", "tok123", "old", "p w"}

Authenticators ==
    {BasicAuth(u, p) : u \in Usernames, p \in Secrets}
    \cup {OAuth2Auth(t) : t \in Secrets}

InitAuth ==
    /\ pc = "auth"
    /\ cli = [access_key |-> None, personal_key |-> None, profile |-> None]
    /\ cmd \in [name : {"debug", "apply"}, auth : Authenticators]
    /\ disk = EmptyConfig
    /\ now = 100
    /\ csrf_state = None
    /\ rng = 1
    /\ auth_urls = <<>>
    /\ responses = <<>>
    /\ listener = "unbound"
    /\ fetches = <<>>
    /\ all_items = <<>>
    /\ current_page = 1
    /\ pages_fetched = 0
    /\ posts = <<>>
    /\ certs = 0
    /\ binds = 0
    /\ accepts = 0
    /\ hs_failed = 0
    /\ hs_ok = 0
    /\ reads = 0
    /\ request_line = None
    /\ code = None
    /\ cb_result = Pending
    /\ token_requests = <<>>
    /\ saves = 0
    /\ client = None
    /\ result = Pending

\* format!("{:?}", auth) for a BasicAuth
FormatBasicAuth ==
    /\ pc = "auth"
    /\ cmd.name = "debug"
    /\ cmd.auth.kind = "Basic"
    /\ result' = Ok(DebugBasicAuth(cmd.auth))
    /\ pc' = "done"
    /\ UNCHANGED <<cli, cmd, rng, auth_urls, responses, disk, now, csrf_state,
                   cb_vars, token_requests, saves, client>>

\* format!("{:?}", auth) for an OAuth2Auth
FormatOAuth2Auth ==
    /\ pc = "auth"
    /\ cmd.name = "debug"
    /\ cmd.auth.kind = "OAuth2"
    /\ result' = Ok(DebugOAuth2Auth(cmd.auth))
    /\ pc' = "done"
    /\ UNCHANGED <<cli, cmd, rng, auth_urls, responses, disk, now, csrf_state,
                   cb_vars, token_requests, saves, client>>

\* <BasicAuth as Authenticator>::apply: req.basic_auth(username, Some(password))
ApplyBasicAuth ==
    /\ pc = "auth"
    /\ cmd.name = "apply"
    /\ cmd.auth.kind = "Basic"
    /\ result' = Ok([basic_auth |-> [username |-> cmd.auth.username,
                                     password |-> cmd.auth.password]])
    /\ pc' = "done"
    /\ UNCHANGED <<cli, cmd, rng, auth_urls, responses, disk, now, csrf_state,
                   cb_vars, token_requests, saves, client>>

\* <OAuth2Auth as Authenticator>::apply: req.bearer_auth(access_token)
ApplyOAuth2Auth ==
    /\ pc = "auth"
    /\ cmd.name = "apply"
    /\ cmd.auth.kind = "OAuth2"
    /\ result' = Ok([bearer_auth |-> cmd.auth.access_token])
    /\ pc' = "done"
    /\ UNCHANGED <<cli, cmd, rng, auth_urls, responses, disk, now, csrf_state,
                   cb_vars, token_requests, saves, client>>

NextAuth ==
    \/ FormatBasicAuth
    \/ FormatOAuth2Auth
    \/ ApplyBasicAuth
    \/ ApplyOAuth2Auth

SpecAuth == InitAuth /\ [][NextAuth]_vars

\* --------------------------------------------------------------------------
\* RavelryClient requests and UploadApi::image
\* --------------------------------------------------------------------------
MAX_UPLOAD_FILES == 10

\* The largest number of files the upload is called with
MaxFiles == 11

Digits == <<"0", "1", "2", "3", "4", "5", "6", "7", "8", "9">>

\* format!("{}", n) of an unsigned integer
RECURSIVE Decimal(_)
Decimal(n) ==
    IF n < 10 THEN <<Digits[n + 1]>>
    ELSE Decimal(n \div 10) \o <<Digits[(n % 10) + 1]>>

\* str::parse::<u64> from the character at i on, acc being the value so far
RECURSIVE ParseDigits(_, _, _)
ParseDigits(s, i, acc) ==
    IF i > Len(s) THEN Some(acc)
    ELSE IF \E d \in 1..10 : Digits[d] = s[i]
    THEN LET d == CHOOSE d \in 1..10 : Digits[d] = s[i]
             next == acc * 10 + (d - 1)
         IN  IF next > U64Max THEN None ELSE ParseDigits(s, i + 1, next)
    ELSE None

ParseU64(s) ==
    LET digits == IF s # <<>> /\ s[1] = "+" THEN Tail(s) ELSE s
    IN  IF digits = <<>> THEN None ELSE ParseDigits(digits, 1, 0)

\* Bytes a header value can hold that are not visible ASCII
OpaqueBytes == {"\\xE9", "\\xFF"}

\* HeaderValue::to_str: only visible ASCII is a str
HeaderToStr(v) ==
    IF \A i \in 1..Len(v) : v[i] \notin OpaqueBytes THEN Some(v) ELSE None

\* NoAuth
NoAuth == [kind |-> "None"]

\* Authenticator::apply: the Authorization header the authenticator puts on a
\* request (req.basic_auth, req.bearer_auth, nothing for NoAuth)
apply(auth) ==
    IF auth.kind = "Basic"
    THEN Some([scheme |-> "Basic", credentials |-> <<auth.username, auth.password>>])
    ELSE IF auth.kind = "OAuth2"
    THEN Some([scheme |-> "Bearer", credentials |-> <<auth.access_token>>])
    ELSE None

\* A client that authenticates every request it builds
request_with_authAlways(c, method, path, auth_mode) ==
    [method |-> method,
     path |-> path,
     authorization |-> apply(c.auth),
     query |-> IF c.debug THEN <<[key |-> "debug", value |-> "1"]>> ELSE <<>>,
     if_none_match |-> c.if_none_match,
     multipart |-> None]

\* RavelryClient::request_with_auth for a client [auth, debug, if_none_match]
request_with_auth(c, method, path, auth_mode) ==
    [method |-> method,
     path |-> path,
     authorization |-> IF auth_mode = "Default" THEN apply(c.auth) ELSE None,
     query |-> IF c.debug THEN <<[key |-> "debug", value |-> "1"]>> ELSE <<>>,
     if_none_match |-> c.if_none_match,
     multipart |-> None]

post_no_auth(c, path) == request_with_auth(c, "POST", path, "None")

get_no_auth(c, path) == request_with_auth(c, "GET", path, "None")

\* RavelryClient::request, behind get, post, delete and post_data
request(c, method, path) == request_with_auth(c, method, path, "Default")

\* The endpoints besides upload image: the helper each builds its request
\* with, its path and the required fields of its response type
Endpoints ==
    {[name |-> "request_token", helper |-> "post",
      path |-> "upload/request_token.json", fields |-> {"upload_token"}],
     [name |-> "image_status", helper |-> "get_no_auth",
      path |-> "upload/image/status.json", fields |-> {"uploads"}],
     [name |-> "current_user", helper |-> "get",
      path |-> "current_user.json", fields |-> {"user"}],
     [name |-> "messages_delete", helper |-> "delete",
      path |-> "messages/12345.json", fields |-> {"message"}],
     [name |-> "favorites_create", helper |-> "post_data",
      path |-> "people/bob/favorites/create.json", fields |-> {"favorite"}]}

Endpoint(name) == CHOOSE e \in Endpoints : e.name = name

\* The request an endpoint hands to send_json
EndpointRequest(c, e, upload_token) ==
    IF e.helper = "get_no_auth"
    THEN LET req == get_no_auth(c, e.path)
         IN  [req EXCEPT !.query = Append(req.query, [key |-> "upload_token",
                                                       value |-> upload_token])]
    ELSE IF e.helper = "get" THEN request(c, "GET", e.path)
    ELSE IF e.helper = "delete" THEN request(c, "DELETE", e.path)
    ELSE request(c, "POST", e.path)

\* The required fields of the response type of a call
ResponseFields(name) ==
    IF name = "image" THEN {"uploads"} ELSE Endpoint(name).fields

\* Part::mime_str accepts type/subtype, each a non-empty token
ValidMime(ct) ==
    /\ Cardinality({i \in 1..Len(ct) : ct[i] = "/"}) = 1
    /\ ct[1] # "/"
    /\ ct[Len(ct)] # "/"
    /\ \A i \in 1..Len(ct) : ct[i] # " "

FieldName(i) == <<"f", "i", "l", "e">> \o Decimal(i)

\* The loop of UploadApi::image over files.into_iter().enumerate(), at the
\* file of position i, form being the parts added so far
RECURSIVE ImageParts(_, _, _)
ImageParts(files, i, form) ==
    IF i > Len(files) THEN Ok(form)
    ELSE IF IsSome(files[i].content_type) /\ ~ValidMime(Unwrap(files[i].content_type))
    THEN Err("InvalidRequest", <<"Invalid content type: ", "mime::FromStrError">>)
    ELSE ImageParts(files, i + 1,
                    Append(form, [name |-> FieldName(i - 1),
                                  filename |-> Some(files[i].filename),
                                  value |-> files[i].bytes,
                                  mime |-> files[i].content_type]))

\* An upload that refuses MAX_UPLOAD_FILES files too
imageRefusingTheMaximum(c, upload_token, files) ==
    IF Len(files) >= MAX_UPLOAD_FILES
    THEN Err("InvalidRequest",
             <<"Maximum ">> \o Decimal(MAX_UPLOAD_FILES)
                \o <<" files per upload, got ">> \o Decimal(Len(files)))
    ELSE IF files = <<>>
    THEN Err("InvalidRequest", <<"At least one file is required">>)
    ELSE LET form == ImageParts(files, 1,
                                <<[name |-> <<"u", "p", "l", "o", "a", "d", "_",
                                              "t", "o", "k", "e", "n">>,
                                   filename |-> None,
                                   value |-> upload_token,
                                   mime |-> None]>>)
         IN  IF form.kind # "Ok" THEN form
             ELSE Ok([post_no_auth(c, "upload/image.json")
                        EXCEPT !.multipart = Some(form.val)])

\* UploadApi::image up to the request it sends: the error it returns without
\* sending anything, or Ok of the request
image(c, upload_token, files) ==
    IF Len(files) > MAX_UPLOAD_FILES
    THEN Err("InvalidRequest",
             <<"Maximum ">> \o Decimal(MAX_UPLOAD_FILES)
                \o <<" files per upload, got ">> \o Decimal(Len(files)))
    ELSE IF files = <<>>
    THEN Err("InvalidRequest", <<"At least one file is required">>)
    ELSE LET form == ImageParts(files, 1,
                                <<[name |-> <<"u", "p", "l", "o", "a", "d", "_",
                                              "t", "o", "k", "e", "n">>,
                                   filename |-> None,
                                   value |-> upload_token,
                                   mime |-> None]>>)
         IN  IF form.kind # "Ok" THEN form
             ELSE Ok([post_no_auth(c, "upload/image.json")
                        EXCEPT !.multipart = Some(form.val)])

\* map_error_response
map_error_response(resp) ==
    IF resp.status = 304
    THEN Err("NotModified",
             [etag |-> IF IsSome(resp.headers.etag)
                       THEN HeaderToStr(Unwrap(resp.headers.etag)) ELSE None])
    ELSE IF resp.status = 429
    THEN Err("RateLimited",
             [retry_after |->
                LET h == IF IsSome(resp.headers.retry_after)
                         THEN HeaderToStr(Unwrap(resp.headers.retry_after))
                         ELSE None
                IN  IF IsSome(h) THEN ParseU64(Unwrap(h)) ELSE None,
              body |-> IF resp.body.kind = "json" THEN resp.body.content ELSE None])
    ELSE Err("ApiStatus",
             [status |-> resp.status,
              body |-> IF resp.body.kind = "unreadable"
                       THEN [error |-> "Failed to read response body"]
                       ELSE IF resp.body.kind = "json" THEN resp.body.content[1]
                       ELSE [raw |-> resp.body.content[1]]])

\* RavelryClient::send_json once the server has answered, for a response type
\* whose required fields are fields
send_json(resp, fields) ==
    IF resp.outcome = "transport"
    THEN Err("Http", [text |-> "error sending request", cause |-> "reqwest::Error"])
    ELSE IF IsSuccess(resp.status)
    THEN IF resp.body.kind = "json" /\ fields \subseteq DOMAIN resp.body.content[1]
         THEN Ok(resp.body.content[1])
         ELSE Err("Http", [text |-> "error decoding response body",
                           cause |-> "reqwest::Error"])
    ELSE map_error_response(resp)

\* The files of an upload: n files, the one at position k (none when k = 0)
\* with the content type ct, named upwards or downwards
UploadFiles(n, k, ct, order) ==
    [i \in 1..n |->
       [filename |-> <<"p">> \o Decimal(IF order = "up" THEN i ELSE n - i) \o <<".", "j", "p", "g">>,
        bytes |-> <<i>>,
        content_type |-> IF i = k THEN Some(ct) ELSE None]]

ContentTypes ==
    {<<"i", "m", "a", "g", "e", "/", "j", "p", "e", "g">>,
     <<"j", "p", "e", "g">>,
     <<>>}

FileLists ==
    {UploadFiles(n, k, ct, order) :
        n \in 0..MaxFiles, k \in 0..MaxFiles, ct \in ContentTypes,
        order \in {"up", "down"}}

UploadClients ==
    [auth : {BasicAuth("akey", "pkey"), OAuth2Auth("tok123"), NoAuth},
     debug : BOOLEAN,
     if_none_match : {None}]

UploadHeaders ==
    [etag : {None, Some(<<"W", "/", "1">>), Some(<<"\\xE9">>)},
     retry_after : {None, Some(<<"3", "0">>), Some(<<"s", "o", "o", "n">>)}]

\* What the server, or the network before it, can answer to an upload
UploadAnswers ==
    {[outcome |-> "transport"]}
    \cup [outcome : {"response"},
          status : {200, 204, 304, 404, 429, 500},
          headers : UploadHeaders,
          body : {JsonBody([uploads |-> <<[file0 |-> [image_id |-> 12345]]>>]),
                  JsonBody([error |-> "no"]),
                  TextBody("<html>"),
                  UnreadableBody}]

InitUpload ==
    /\ pc = "upload"
    /\ cli = [access_key |-> None, personal_key |-> None, profile |-> None]
    /\ cmd \in [name : {"image"}, client : UploadClients,
                upload_token : {<<"t", "o", "k">>}, files : FileLists]
              \cup [name : {e.name : e \in Endpoints}, client : UploadClients,
                    upload_token : {<<"t", "o", "k">>}, files : {<<>>}]
    /\ disk = EmptyConfig
    /\ now = 100
    /\ csrf_state = None
    /\ rng = 1
    /\ auth_urls = <<>>
    /\ responses = <<>>
    /\ listener = "unbound"
    /\ fetches = <<>>
    /\ all_items = <<>>
    /\ current_page = 1
    /\ pages_fetched = 0
    /\ posts = <<>>
    /\ certs = 0
    /\ binds = 0
    /\ accepts = 0
    /\ hs_failed = 0
    /\ hs_ok = 0
    /\ reads = 0
    /\ request_line = None
    /\ code = None
    /\ cb_result = Pending
    /\ token_requests = <<>>
    /\ saves = 0
    /\ client = None
    /\ result = Pending

\* UploadApi::image up to req.send()
UploadImage ==
    /\ pc = "upload"
    /\ cmd.name = "image"
    /\ LET r == image(cmd.client, cmd.upload_token, cmd.files)
       IN  IF r.kind = "Ok"
           THEN /\ posts' = Append(posts, r.val)
                /\ pc' = "await_upload"
                /\ UNCHANGED result
           ELSE /\ result' = r
                /\ pc' = "done"
                /\ UNCHANGED posts
    /\ UNCHANGED <<page_vars, cli, cmd, rng, auth_urls, responses, disk, now, csrf_state,
                   listener, certs, binds, accepts, hs_failed, hs_ok, reads,
                   request_line, code, cb_result, token_requests, saves, client>>

\* The answer to the upload reaches send_json
UploadImageResponse ==
    /\ pc = "await_upload"
    /\ \E resp \in UploadAnswers :
         /\ responses' = Append(responses, resp)
         /\ result' = send_json(resp, ResponseFields(cmd.name))
    /\ pc' = "done"
    /\ UNCHANGED <<cli, cmd, rng, auth_urls, disk, now, csrf_state, cb_vars,
                   token_requests, saves, client>>

\* Any other endpoint up to req.send()
EndpointCall ==
    /\ pc = "upload"
    /\ cmd.name # "image"
    /\ posts' = Append(posts, EndpointRequest(cmd.client, Endpoint(cmd.name),
                                              cmd.upload_token))
    /\ pc' = "await_upload"
    /\ UNCHANGED <<page_vars, cli, cmd, rng, auth_urls, responses, disk, now, csrf_state,
                   listener, certs, binds, accepts, hs_failed, hs_ok, reads,
                   request_line, code, cb_result, token_requests, saves, client,
                   result>>

NextUpload ==
    \/ UploadImage
    \/ EndpointCall
    \/ UploadImageResponse

SpecUpload == InitUpload /\ [][NextUpload]_vars

\* --------------------------------------------------------------------------
\* collect_all_pages
\* --------------------------------------------------------------------------
\* The bits of a u32, scaled
PageBits == 2

U32Max == 2^PageBits - 1

\* The largest number of calls of fetch that is followed
MaxFetches == 4

\* The largest last_page of a server that serves the pages it is asked for
MaxLastPage == 3

\* A has_next that counts the current page as a next one
has_nextInclusive(paginator) == paginator.page <= paginator.last_page

\* Paginator::has_next
has_next(paginator) == paginator.page < paginator.last_page

\* A limit that is noticed one page late
LimitReachedLate(max_pages, fetched) ==
    IsSome(max_pages) /\ fetched > Unwrap(max_pages)

\* if let Some(max) = max_pages { if pages_fetched >= max { break; } }
LimitReached(max_pages, fetched) ==
    IsSome(max_pages) /\ fetched >= Unwrap(max_pages)

\* PageParams { page: Some(current_page), page_size: Some(initial_page_size) }
PageParams(page, page_size) == [page |-> Some(page), page_size |-> Some(page_size)]

Paginator(page, last_page, page_size, items) ==
    [page_count |-> last_page, page |-> page, page_size |-> page_size,
     results |-> Len(items), last_page |-> last_page]

ItemLists == {<<>>, <<"a">>, <<"b", "c">>}

FetchErrors ==
    {Err("Http", [text |-> "error sending request", cause |-> "reqwest::Error"]),
     Err("ApiStatus", [status |-> 500, body |-> [raw |-> "oops"]])}

\* What fetch can return to the call with params: an error; for a server
\* that serves the page it is asked for, with the constant last page
\* Unwrap(server), that page; for any other server any page numbers at all
FetchAnswers(server, params) ==
    FetchErrors
    \cup IF IsSome(server)
         THEN {Ok([items |-> items,
                   paginator |-> Paginator(Unwrap(params.page), Unwrap(server),
                                           Unwrap(params.page_size), items)]) :
                 items \in ItemLists}
         ELSE {Ok([items |-> <<"a">>,
                   paginator |-> Paginator(pl[1], pl[2], Unwrap(params.page_size),
                                           <<"a">>)]) :
                 pl \in {<<1, 1>>, <<1, U32Max>>, <<0, 2>>, <<2, 1>>,
                         <<U32Max - 1, U32Max>>}}

PageCalls ==
    [name : {"collect_all_pages"},
     initial_page_size : {25, 50},
     max_pages : {None} \cup {Some(k) : k \in 0..U32Max},
     server : {None} \cup {Some(l) : l \in 1..MaxLastPage}]

InitPages ==
    /\ pc = "pages"
    /\ cli = [access_key |-> None, personal_key |-> None, profile |-> None]
    /\ cmd \in PageCalls
    /\ disk = EmptyConfig
    /\ now = 100
    /\ csrf_state = None
    /\ rng = 1
    /\ auth_urls = <<>>
    /\ responses = <<>>
    /\ listener = "unbound"
    /\ fetches = <<>>
    /\ all_items = <<>>
    /\ current_page = 1
    /\ pages_fetched = 0
    /\ posts = <<>>
    /\ certs = 0
    /\ binds = 0
    /\ accepts = 0
    /\ hs_failed = 0
    /\ hs_ok = 0
    /\ reads = 0
    /\ request_line = None
    /\ code = None
    /\ cb_result = Pending
    /\ token_requests = <<>>
    /\ saves = 0
    /\ client = None
    /\ result = Pending

\* The head of the loop: break at the limit, or call fetch
PagesLoop ==
    /\ pc = "pages"
    /\ IF LimitReached(cmd.max_pages, pages_fetched)
       THEN /\ result' = Ok(all_items)
            /\ pc' = "done"
            /\ UNCHANGED fetches
       ELSE /\ Len(fetches) < MaxFetches
            /\ fetches' = Append(fetches, PageParams(current_page, cmd.initial_page_size))
            /\ pc' = "await_page"
            /\ UNCHANGED result
    /\ UNCHANGED <<cli, cmd, rng, auth_urls, responses, disk, now, csrf_state,
                   listener, all_items, current_page, pages_fetched, posts, certs,
                   binds, accepts, hs_failed, hs_ok, reads, request_line, code,
                   cb_result, token_requests, saves, client>>

\* fetch(page_params).await? and the rest of the loop body; pages_fetched += 1
\* at u32::MAX panics in a build with overflow checks and wraps in one without
PagesFetched ==
    /\ pc = "await_page"
    /\ \E answer \in FetchAnswers(cmd.server, fetches[Len(fetches)]) :
         /\ responses' = Append(responses, answer)
         /\ IF answer.kind # "Ok"
            THEN /\ result' = answer
                 /\ pc' = "done"
                 /\ UNCHANGED <<all_items, current_page, pages_fetched>>
            ELSE /\ all_items' = all_items \o answer.val.items
                 /\ \/ /\ pages_fetched = U32Max
                       /\ result' = Panic
                       /\ pc' = "done"
                       /\ UNCHANGED <<current_page, pages_fetched>>
                    \/ /\ pages_fetched' = (pages_fetched + 1) % (U32Max + 1)
                       /\ IF has_next(answer.val.paginator)
                          THEN /\ current_page' = answer.val.paginator.page + 1
                               /\ pc' = "pages"
                               /\ UNCHANGED result
                          ELSE /\ result' = Ok(all_items')
                               /\ pc' = "done"
                               /\ UNCHANGED current_page
    /\ UNCHANGED <<cli, cmd, rng, auth_urls, disk, now, csrf_state, listener,
                   fetches, posts, certs, binds, accepts, hs_failed, hs_ok, reads,
                   request_line, code, cb_result, token_requests, saves, client>>

NextPages ==
    \/ PagesLoop
    \/ PagesFetched

SpecPages == InitPages /\ [][NextPages]_vars

\* --------------------------------------------------------------------------
\* A session of auth commands on one config.toml
\* --------------------------------------------------------------------------
\* The largest number of commands of a session
MaxCommands == 3

\* A delete_profile that leaves current_profile alone
delete_profileKeepingCurrent(config, name) ==
    [config EXCEPT !.profiles[name] = None]

\* Config::delete_profile
delete_profile(config, name) ==
    [config EXCEPT !.profiles[name] = None,
                   !.current_profile =
                      IF config.current_profile = Some(name) THEN None
                      ELSE config.current_profile]

\* The invocations of a session: the global options and the auth command
SessionInvocations ==
    {[cli |-> [access_key |-> None, personal_key |-> None, profile |-> None],
      cmd |-> c] :
        c \in [name : {"basic"}, access_key : {"akey"}, personal_key : {"pkey"},
               profile_name : ProfileNames]
              \cup LoginCommands
              \cup [name : {"use", "delete"}, target : ProfileNames]}
    \cup [cli : [access_key : {None}, personal_key : {None},
                 profile : {None, Some("work")}],
          cmd : [name : {"refresh"},
                 profile_name : {None} \cup {Some(n) : n \in ProfileNames}]]

\* Where run_auth_command starts on a command
EntryPc(command) ==
    IF command.name = "refresh" THEN "auth_refresh" ELSE "auth_" \o command.name

InitSession ==
    /\ \E inv \in SessionInvocations :
         /\ cli = inv.cli
         /\ cmd = inv.cmd
         /\ pc = EntryPc(inv.cmd)
    /\ disk = EmptyConfig
    /\ now = 100
    /\ csrf_state = None
    /\ rng = 1
    /\ auth_urls = <<>>
    /\ responses = <<>>
    /\ listener = "unbound"
    /\ fetches = <<>>
    /\ all_items = <<>>
    /\ current_page = 1
    /\ pages_fetched = 0
    /\ posts = <<>>
    /\ certs = 0
    /\ binds = 0
    /\ accepts = 0
    /\ hs_failed = 0
    /\ hs_ok = 0
    /\ reads = 0
    /\ request_line = None
    /\ code = None
    /\ cb_result = Pending
    /\ token_requests = <<>>
    /\ saves = 0
    /\ client = None
    /\ result = Pending

\* The next command of the session: a new process, later on the clock
SessionNext ==
    /\ pc = "done"
    /\ now < 100 + MaxCommands - 1
    /\ now' = now + 1
    /\ \E inv \in SessionInvocations :
         /\ cli' = inv.cli
         /\ cmd' = inv.cmd
         /\ pc' = EntryPc(inv.cmd)
    /\ result' = Pending
    /\ responses' = <<>>
    /\ token_requests' = <<>>
    /\ saves' = 0
    /\ UNCHANGED <<rng, auth_urls, disk, csrf_state, cb_vars, client>>

\* auth basic
AuthBasic ==
    /\ pc = "auth_basic"
    /\ pc' = "done"
    /\ \/ /\ result' = Err("Config", "load")
          /\ UNCHANGED <<disk, saves>>
       \/ /\ result' = Err("Config", "save")
          /\ UNCHANGED <<disk, saves>>
       \/ /\ disk' = set_current(
                       set_profile(disk, cmd.profile_name,
                                   ProfileBasic(cmd.access_key, cmd.personal_key)),
                       cmd.profile_name)
          /\ saves' = saves + 1
          /\ result' = Ok(<<>>)
    /\ UNCHANGED <<cli, cmd, rng, auth_urls, responses, now, csrf_state, cb_vars,
                   token_requests, client>>

\* auth login from its first line to its return: the login ends before the
\* exchange (no client, no callback), or with the answer to exchange_code
AuthLogin ==
    /\ pc = "auth_login"
    /\ pc' = "done"
    /\ \/ /\ \E e \in {Err("Io", "bind"), Err("Io", "write_all"),
                       Err("MissingCredentials", NoCodeMessage)} : result' = e
          /\ UNCHANGED <<disk, saves, responses>>
       \/ \E resp \in TokenEndpointOutcomes :
            /\ responses' = Append(responses, resp)
            /\ LET t == exchange_code(resp, now)
               IN  IF t.kind = "Ok" THEN LoginSave(t.val)
                   ELSE IF t.kind = "Panic"
                   THEN result' = Panic /\ UNCHANGED <<disk, saves>>
                   ELSE /\ result' = Err("Api", t)
                        /\ UNCHANGED <<disk, saves>>
    /\ UNCHANGED <<cli, cmd, rng, auth_urls, now, csrf_state, cb_vars,
                   token_requests, client>>

\* auth use
AuthUse ==
    /\ pc = "auth_use"
    /\ pc' = "done"
    /\ \/ /\ result' = Err("Config", "load")
          /\ UNCHANGED <<disk, saves>>
       \/ IF ~IsSome(get_profile(disk, cmd.target))
          THEN /\ result' = [kind |-> "Exit", val |-> <<1>>]
               /\ UNCHANGED <<disk, saves>>
          ELSE \/ /\ result' = Err("Config", "save")
                  /\ UNCHANGED <<disk, saves>>
               \/ /\ disk' = set_current(disk, cmd.target)
                  /\ saves' = saves + 1
                  /\ result' = Ok(<<>>)
    /\ UNCHANGED <<cli, cmd, rng, auth_urls, responses, now, csrf_state, cb_vars,
                   token_requests, client>>

\* auth delete
AuthDelete ==
    /\ pc = "auth_delete"
    /\ pc' = "done"
    /\ \/ /\ result' = Err("Config", "load")
          /\ UNCHANGED <<disk, saves>>
       \/ IF ~IsSome(get_profile(disk, cmd.target))
          THEN /\ result' = [kind |-> "Exit", val |-> <<1>>]
               /\ UNCHANGED <<disk, saves>>
          ELSE \/ /\ result' = Err("Config", "save")
                  /\ UNCHANGED <<disk, saves>>
               \/ /\ disk' = delete_profile(disk, cmd.target)
                  /\ saves' = saves + 1
                  /\ result' = Ok(<<>>)
    /\ UNCHANGED <<cli, cmd, rng, auth_urls, responses, now, csrf_state, cb_vars,
                   token_requests, client>>

NextSession ==
    \/ SessionNext
    \/ AuthBasic
    \/ AuthLogin
    \/ AuthUse
    \/ AuthDelete
    \/ AuthRefreshBegin
    \/ AuthRefreshResponse

SpecSession == InitSession /\ [][NextSession]_vars

\* --------------------------------------------------------------------------
\* What the claims say about a request line, stated on its characters
\* --------------------------------------------------------------------------
\* the first index from i on whose character is whitespace (ws = TRUE) or is
\* not (ws = FALSE), Len(line) + 1 when there is none
RECURSIVE Scan(_, _, _)
Scan(line, i, ws) ==
    IF i > Len(line) \/ IsWhitespace(line[i]) = ws THEN i
    ELSE Scan(line, i + 1, ws)

\* the index of the first character of the second whitespace-separated token
\* of line, 0 when it has none
SecondTokenStart(line) ==
    LET i == Scan(line, Scan(line, Scan(line, 1, FALSE), TRUE), FALSE)
    IN  IF i > Len(line) THEN 0 ELSE i

\* the second token of line, <<>> when it has none
SecondToken(line) ==
    LET i == SecondTokenStart(line)
    IN  IF i = 0 THEN <<>> ELSE SubSeq(line, i, Scan(line, i, TRUE) - 1)

\* the second token of line starts with /callback? or /callback/?
IsCallbackLine(line) ==
    LET t == SecondToken(line)
    IN  StartsWith(t, CallbackQ) \/ StartsWith(t, CallbackSlashQ)

\* the query string of a callback line: what follows the prefix in its path
QueryString(line) ==
    LET t == SecondToken(line)
    IN  IF StartsWith(t, CallbackQ) THEN Drop(t, Len(CallbackQ) + 1)
        ELSE Drop(t, Len(CallbackSlashQ) + 1)

\* the indices of query q at which a parameter starts
ParamStarts(q) == {i \in 1..(Len(q) + 1) : i = 1 \/ q[i - 1] = "&"}

\* the parameter of q that starts at index i, without the '&' that ends it
ParamAt(q, i) ==
    LET ends == {e \in i..(Len(q) + 1) : e = Len(q) + 1 \/ q[e] = "&"}
        e == CHOOSE x \in ends : \A y \in ends : x <= y
    IN  SubSeq(q, i, e - 1)

IsCodeParam(param) == StartsWith(param, CodeEq)

\* the indices of q at which a parameter that starts with "code=" starts
CodeParamStarts(q) == {i \in ParamStarts(q) : StartsWith(Drop(q, i), CodeEq)}

\* the line carries a code parameter
HasCodeParam(line) ==
    IsCallbackLine(line) /\ CodeParamStarts(QueryString(line)) # {}

\* the text after "code=" of the first parameter that starts with "code="
FirstCodeText(line) ==
    LET q == QueryString(line)
        starts == CodeParamStarts(q)
        i == CHOOSE x \in starts : \A y \in starts : x <= y
    IN  Drop(ParamAt(q, i), Len(CodeEq) + 1)

\* the callback wait has returned
CbReturned == cb_result.kind # "Pending"

\* the number of connections whose handshake is still in progress
InHandshake == IF pc = "handshake" THEN 1 ELSE 0

\* --------------------------------------------------------------------------
\* C1
\* --------------------------------------------------------------------------
\* C1: once the wait has returned after a successful handshake whose request
\* line carries code=C, it has returned exactly C, however many handshakes
\* failed before on the listener that was bound once.
C1_HandshakesThenCodeIsReturned ==
    /\ binds <= 1
    /\ accepts = hs_failed + hs_ok + InHandshake
    /\ (CbReturned /\ hs_ok = 1 /\ IsSome(request_line)
          /\ HasCodeParam(Unwrap(request_line)))
       => cb_result = Ok(FirstCodeText(Unwrap(request_line)))

\* The part of C1 about the handshake loop alone: a failed handshake leaves the
\* wait running, back at accept, on the listener that was bound once, and a
\* code that is returned is the one of the request line.
HandshakeFailuresDoNotTerminate ==
    /\ [](/\ binds <= 1
          /\ accepts = hs_failed + hs_ok + InHandshake
          /\ (pc = "exchange" /\ IsSome(request_line))
             => cb_result = Ok(FirstCodeText(Unwrap(request_line))))
    /\ [][hs_failed' # hs_failed
            => /\ hs_failed' = hs_failed + 1
               /\ pc' = "accept"
               /\ cb_result' = Pending
               /\ result' = Pending
               /\ listener = "listening" /\ listener' = "listening"
               /\ binds' = binds]_vars

\* --------------------------------------------------------------------------
\* C2
\* --------------------------------------------------------------------------
\* C2: once a request line without a code parameter has been read, the wait
\* has returned the "No authorization code received in callback" error, the
\* listener is closed, no further connection is accepted and nothing is sent
\* to the token endpoint.
C2_NoCodeIsTerminal ==
    (reads >= 1 /\ IsSome(request_line) /\ ~HasCodeParam(Unwrap(request_line)))
    => /\ cb_result = Err("MissingCredentials", NoCodeMessage)
       /\ result = cb_result
       /\ pc = "done"
       /\ listener = "closed"
       /\ accepts = hs_failed + hs_ok
       /\ reads = 1
       /\ token_requests = <<>>

\* GET /callback?state=xyz HTTP/1.1 was read and the wait failed
C2_Witness ==
    /\ request_line =
         Some(<<"G", "E", "T", " ">> \o CallbackQ \o StateEq \o <<"x", "y", "z">>
              \o <<" ">> \o HttpVersion \o CrLf)
    /\ cb_result.kind = "MissingCredentials"
    /\ pc = "done"

\* --------------------------------------------------------------------------
\* C3
\* --------------------------------------------------------------------------
ExampleLine ==
    <<"G", "E", "T", " ">> \o CallbackQ \o CodeEq \o <<"A", "B", "C", "1", "2", "3">>
    \o <<"&">> \o StateEq \o <<"x", "y", "z">> \o <<" ">> \o HttpVersion \o CrLf

\* C3: for a request line whose second token starts with /callback? or
\* /callback/?, the code parsed, the code returned and the code sent to the
\* token endpoint are the text after "code=" of the first parameter that
\* starts with "code=", wherever that parameter stands; for the example line
\* it is ABC123.
C3_CodeIsFirstCodeParameter ==
    (IsSome(request_line) /\ IsCallbackLine(Unwrap(request_line)))
    => LET line == Unwrap(request_line)
       IN  /\ HasCodeParam(line) => code = Some(FirstCodeText(line))
           /\ cb_result.kind = "Ok"
              => /\ HasCodeParam(line)
                 /\ cb_result.val = FirstCodeText(line)
                 /\ token_requests[1].form.code = FirstCodeText(line)
           /\ line = ExampleLine => code = Some(<<"A", "B", "C", "1", "2", "3">>)

\* the example line was read and ABC123 returned
C3_Witness ==
    /\ request_line = Some(ExampleLine)
    /\ cb_result = Ok(<<"A", "B", "C", "1", "2", "3">>)

\* --------------------------------------------------------------------------
\* C4
\* --------------------------------------------------------------------------
\* C4: at most one connection completes the TLS handshake and has its request
\* line read, and once the wait has returned (a code or an error) the listener
\* is not listening any more.
C4_OneExchangeThenClosed ==
    /\ hs_ok <= 1
    /\ reads <= hs_ok
    /\ CbReturned => listener # "listening" /\ pc \in {"exchange", "done"}
    /\ pc \in {"exchange", "done"} => listener # "listening"

\* a code was returned after one failed and one successful handshake
C4_Witness ==
    /\ cb_result.kind = "Ok"
    /\ hs_ok = 1
    /\ reads = 1
    /\ hs_failed >= 1
    /\ listener = "closed"

\* --------------------------------------------------------------------------
\* C7
\* --------------------------------------------------------------------------
\* the value of the first state parameter of a callback line, None without one
ReceivedState(line) ==
    LET q == QueryString(line)
        starts == {i \in ParamStarts(q) : StartsWith(Drop(q, i), StateEq)}
    IN  IF ~IsCallbackLine(line) \/ starts = {} THEN None
        ELSE LET i == CHOOSE x \in starts : \A y \in starts : x <= y
             IN  Some(Drop(ParamAt(q, i), Len(StateEq) + 1))

\* C7: exchange_code is called only when the state received on the callback
\* equals the state authorize_url returned.
C7_StateVerifiedBeforeExchange ==
    token_requests # <<>>
    => /\ IsSome(request_line)
       /\ ReceivedState(Unwrap(request_line)) = csrf_state

\* --------------------------------------------------------------------------
\* C8
\* --------------------------------------------------------------------------
\* parameters that do not start with "code="
NonCodeParams ==
    {StateEq \o <<"x", "y", "z">>, StateEq \o <<"n", "2">>, StateEq,
     <<"x", "=", "1">>, <<"c", "o", "d", "e">>, <<"x">> \o CodeEq \o <<"Z">>, <<>>}

\* The lines that differ from line by one non-code parameter of the query
\* string of its second token (what follows the first '?'): one inserted, one
\* removed, or one replaced by another
NonCodeVariants(line) ==
    LET ts == SecondTokenStart(line)
        te == Scan(line, ts, TRUE) - 1
        marks == IF ts = 0 THEN {} ELSE {i \in ts..te : line[i] = "?"}
    IN  IF marks = {} THEN {}
        ELSE
        LET m == CHOOSE x \in marks : \A y \in marks : x <= y
            pre == SubSeq(line, 1, m)
            q == SubSeq(line, m + 1, te)
            post == Drop(line, te + 1)
            starts == ParamStarts(q)
            others == {i \in starts : ~IsCodeParam(ParamAt(q, i))}
        IN  {pre \o SubSeq(q, 1, i - 1) \o p \o <<"&">> \o Drop(q, i) \o post :
                i \in starts, p \in NonCodeParams}
            \cup {pre \o q \o <<"&">> \o p \o post : p \in NonCodeParams}
            \cup {pre \o SubSeq(q, 1, i - 1) \o p
                      \o Drop(q, i + Len(ParamAt(q, i))) \o post :
                    i \in others, p \in NonCodeParams}
            \cup {pre \o SubSeq(q, 1, i - 1)
                      \o Drop(q, i + Len(ParamAt(q, i)) + 1) \o post :
                    i \in {j \in others : j + Len(ParamAt(q, j)) <= Len(q)}}
            \cup {pre \o SubSeq(q, 1, i - 2) \o post :
                    i \in {j \in others : j > 1 /\ j + Len(ParamAt(q, j)) > Len(q)}}

\* C8: once the wait has returned a code or the no-code error, every request
\* line that differs from the one read only in non-code parameters (the state
\* parameter among them) is parsed to the same code, so the wait returns the
\* same code for it, or the same error.
C8_OnlyTheCodeParameterCounts ==
    (IsSome(request_line)
        /\ (pc = "exchange" \/ cb_result.kind = "MissingCredentials"))
    => \A v \in NonCodeVariants(Unwrap(request_line)) :
         LET extracted == ExtractCode(v)
         IN  /\ extracted = code
             /\ cb_result.kind = "Ok" => extracted = Some(cb_result.val)
             /\ cb_result.kind = "MissingCredentials" => extracted = None

\* GET /callback?state=n2&code=B HTTP/1.1 was read after authorize_url returned
\* the state xyz, and B was returned
C8_Witness ==
    /\ request_line =
         Some(<<"G", "E", "T", " ">> \o CallbackQ \o StateEq \o <<"n", "2">> \o <<"&">>
              \o CodeEq \o <<"B">> \o <<" ">> \o HttpVersion \o CrLf)
    /\ csrf_state = Some(<<"x", "y", "z">>)
    /\ cb_result = Ok(<<"B">>)

\* --------------------------------------------------------------------------
\* C5 and C6
\* --------------------------------------------------------------------------
\* build_client takes its credentials from a stored OAuth2 profile
UsesOAuth2Profile ==
    /\ ~(IsSome(cli.access_key) /\ IsSome(cli.personal_key))
    /\ IsSome(SelectedProfile(cli, disk))
    /\ Unwrap(SelectedProfile(cli, disk)).type = "OAuth2"

UsedToken == Unwrap(SelectedProfile(cli, disk)).token

\* the token of that profile is_expired with a skew of 300 s
UsedTokenExpired == is_expired(UsedToken, 300, now) = Ok(TRUE)

\* C5: for a profile whose token is expired and has a refresh token,
\* build_client sends one refresh request and no client is built before its
\* answer; a client is built after it only with the config written once, the
\* profile holding the same client id and secret and a new token, and the
\* client using the access token of that new token, not the stale one. For a
\* token that is not expired no request is sent and the config is not written.
\* At most one refresh request is ever sent.
C5_RefreshedBeforeUse ==
    /\ [](Len(token_requests) <= 1 /\ saves <= Len(token_requests))
    /\ [][(pc = "build_client" /\ UsesOAuth2Profile /\ UsedTokenExpired
             /\ IsSome(UsedToken.refresh_token))
          => /\ client' = None
             /\ disk' = disk
             /\ saves' = 0
             /\ pc' = "refresh"
                => token_requests' =
                     <<RefreshRequest(
                         OAuth2Client(Unwrap(SelectedProfile(cli, disk)).client_id,
                                      Unwrap(SelectedProfile(cli, disk)).client_secret,
                                      RedirectUri),
                         Unwrap(UsedToken.refresh_token))>>
             /\ pc' # "refresh" => result'.kind \in {"Api", "Config"}]_vars
    /\ [][(pc = "refresh" /\ client' # None)
          => LET name == Unwrap(ProfileName(cli, disk))
                 old == Unwrap(disk.profiles[name])
                 new == Unwrap(disk'.profiles[name])
             IN  /\ saves' = 1
                 /\ token_requests' = token_requests
                 /\ new.type = "OAuth2"
                 /\ new.client_id = old.client_id
                 /\ new.client_secret = old.client_secret
                 /\ \E raw \in RawTokenResponses :
                      /\ new.token.access_token = raw.access_token
                      /\ new.token.refresh_token = raw.refresh_token
                 /\ new.token.access_token # old.token.access_token
                 /\ client' = Some([auth |-> OAuth2Auth(new.token.access_token)])
                 /\ \A n \in ProfileNames \ {name} :
                      disk'.profiles[n] = disk.profiles[n]]_vars
    /\ [][(pc = "build_client" /\ UsesOAuth2Profile
             /\ is_expired(UsedToken, 300, now) = Ok(FALSE))
          => /\ token_requests' = <<>>
             /\ disk' = disk
             /\ saves' = 0
             /\ pc' = "done"
             /\ client' # None
                => client' = Some([auth |-> OAuth2Auth(UsedToken.access_token)])]_vars

\* a client was built after one refresh, with the token that was saved
C5_Witness ==
    /\ pc = "done"
    /\ client # None
    /\ Len(token_requests) = 1
    /\ token_requests[1].form.grant_type = "refresh_token"
    /\ saves = 1
    /\ UsesOAuth2Profile
    /\ Unwrap(client).auth = OAuth2Auth(UsedToken.access_token)
    /\ UsedToken.access_token = "tok123"

\* C6: for a profile whose token is expired and has no refresh token,
\* build_client (once it has read the config) returns the re-login error with
\* no client built, no request sent to the token endpoint and the config as
\* it was; and that error is returned in no other case.
C6_ExpiredWithoutRefreshTokenFails ==
    /\ [](result = Err("MissingCredentials", ReLoginMessage)
          => /\ pc = "done"
             /\ client = None
             /\ token_requests = <<>>
             /\ saves = 0
             /\ UsesOAuth2Profile
             /\ UsedTokenExpired
             /\ UsedToken.refresh_token = None)
    /\ [][(pc = "build_client" /\ UsesOAuth2Profile /\ UsedTokenExpired
             /\ UsedToken.refresh_token = None)
          => /\ pc' = "done"
             /\ result' \in {Err("MissingCredentials", ReLoginMessage),
                             Err("Config", "load")}
             /\ client' = None
             /\ token_requests' = <<>>
             /\ disk' = disk
             /\ saves' = saves]_vars

\* build_client failed with the re-login error on a token that expires in 240 s
C6_Witness ==
    /\ result = Err("MissingCredentials", ReLoginMessage)
    /\ UsesOAuth2Profile
    /\ UsedToken.expires_at = Some(340)
    /\ client = None

\* --------------------------------------------------------------------------
\* C9 and C10
\* --------------------------------------------------------------------------
\* C9: for every token, skew and instant, is_expired returns false when
\* expires_at is absent and otherwise returns whether now + skew >= expires_at
C9_ExpiredIffNowPlusSkewReachesExpiry ==
    (pc = "done" /\ cmd.name = "is_expired")
    => /\ result.kind = "Ok"
       /\ result.val = IF cmd.token.expires_at = None THEN FALSE
                       ELSE now + cmd.skew >= Unwrap(cmd.token.expires_at)

\* C10: for every response, the token built has expires_at = receipt time +
\* expires_in when expires_in is present (so never before the receipt time)
\* and absent otherwise, and the other fields are those of the response
C10_ExpiryIsReceiptPlusLifetime ==
    (pc = "done" /\ cmd.name = "into_oauth2_token")
    => /\ result.kind = "Ok"
       /\ result.val.expires_at =
            IF cmd.raw.expires_in = None THEN None
            ELSE Some(now + Unwrap(cmd.raw.expires_in))
       /\ IsSome(result.val.expires_at) => Unwrap(result.val.expires_at) >= now
       /\ result.val.access_token = cmd.raw.access_token
       /\ result.val.refresh_token = cmd.raw.refresh_token
       /\ result.val.scope = cmd.raw.scope
       /\ result.val.token_type = cmd.raw.token_type

\* --------------------------------------------------------------------------
\* C11
\* --------------------------------------------------------------------------
\* the answer exchange_code or refresh has returned on
LastAnswer == responses[Len(responses)]

OAuth2Returned == pc = "done" /\ cmd.name \in {"exchange_code", "refresh"}

\* C11: when the token endpoint has answered with a status outside 200..299,
\* exchange_code and refresh have returned an Auth error, not a token and
\* not a panic; the error carries the status of the answer, and its body
\* whenever the body could be read.
C11_NonSuccessStatusIsAuthError ==
    (OAuth2Returned /\ LastAnswer.outcome = "response"
        /\ ~(LastAnswer.status \in 200..299))
    => /\ result.kind = "Auth"
       /\ "status" \in DOMAIN result.val[1]
       /\ "body" \in DOMAIN result.val[1]
       /\ result.val[1].status = LastAnswer.status
       /\ LastAnswer.body.kind # "unreadable"
          => result.val[1].body = LastAnswer.body.content

\* refresh returned on a 401 whose body is the JSON of a token response
C11_Witness ==
    /\ OAuth2Returned
    /\ cmd.name = "refresh"
    /\ LastAnswer.outcome = "response"
    /\ LastAnswer.status = 401
    /\ LastAnswer.body.kind = "json"
    /\ result.kind = "Auth"

\* --------------------------------------------------------------------------
\* C12 and C13
\* --------------------------------------------------------------------------
\* C12: the error exchange_code and refresh return for a network failure is
\* of a kind that none of the errors they return for a non-success status has
C12_TransportErrorHasItsOwnKind ==
    (OAuth2Returned /\ LastAnswer.outcome = "transport")
    => \A a \in TokenEndpointAnswers :
         (a.outcome = "response" /\ ~(a.status \in 200..299))
         => /\ result.kind # exchange_code(a, now).kind
            /\ result.kind # refresh(a, now).kind

\* C13: a call of exchange_code or refresh has sent no request before its
\* send, and exactly one POST to the token endpoint from then on, whatever
\* the endpoint answered; it returns on the first answer.
C13_OnePostPerCall ==
    cmd.name \in {"exchange_code", "refresh"}
    => /\ pc = "oauth2" => token_requests = <<>>
       /\ pc # "oauth2"
          => /\ Len(token_requests) = 1
             /\ token_requests[1].method = "POST"
             /\ token_requests[1].url = TokenUrl
       /\ pc = "done" <=> Len(responses) = 1
       /\ Len(responses) <= 1

\* exchange_code returned on a 500 with one request sent
C13_Witness ==
    /\ OAuth2Returned
    /\ cmd.name = "exchange_code"
    /\ LastAnswer.outcome = "response"
    /\ LastAnswer.status = 500
    /\ Len(token_requests) = 1
    /\ result.kind = "Auth"

\* --------------------------------------------------------------------------
\* C14
\* --------------------------------------------------------------------------
\* the profile a refresh is about, for build_client and for auth refresh
RefreshedName ==
    IF cmd.name = "whoami" THEN Unwrap(ProfileName(cli, disk))
    ELSE Unwrap(RefreshProfileName(cmd, cli, disk))

\* C14: in the step of build_client or auth refresh that stores a refreshed
\* token, the token of the profile becomes the token built from the refresh
\* response in every field: access_token, refresh_token (absent when the
\* response has none), scope and token_type are those of the response and
\* expires_at is the one computed from its expires_in; the client id and
\* secret of the profile, the other profiles and the current profile stay.
\* The stored token changes in no other step.
C14_RefreshReplacesTheToken ==
    /\ [][saves' # saves
          => LET raw == responses'[Len(responses')].body.content[1]
                 old == Unwrap(disk.profiles[RefreshedName])
                 new == Unwrap(disk'.profiles[RefreshedName])
             IN  /\ Len(responses') = Len(responses) + 1
                 /\ new.type = "OAuth2"
                 /\ new.client_id = old.client_id
                 /\ new.client_secret = old.client_secret
                 /\ new.token.access_token = raw.access_token
                 /\ new.token.refresh_token = raw.refresh_token
                 /\ new.token.scope = raw.scope
                 /\ new.token.token_type = raw.token_type
                 /\ new.token.expires_at = into_oauth2_token(raw, now).val.expires_at
                 /\ DOMAIN new.token = {"access_token", "refresh_token", "expires_at",
                                        "scope", "token_type"}
                 /\ disk'.current_profile = disk.current_profile
                 /\ \A n \in ProfileNames \ {RefreshedName} :
                      disk'.profiles[n] = disk.profiles[n]]_vars
    /\ [][saves' = saves => disk' = disk]_vars

\* a refresh whose response had no refresh token and no scope was stored over
\* a token that had both
C14_Witness ==
    /\ pc = "done"
    /\ saves = 1
    /\ Len(responses) = 1
    /\ responses[1].body.content[1].refresh_token = None
    /\ Unwrap(disk.profiles["default"]).type = "OAuth2"
    /\ Unwrap(disk.profiles["default"]).token.access_token = "tok123"
    /\ Unwrap(disk.profiles["default"]).token.refresh_token = None
    /\ Unwrap(disk.profiles["default"]).token.scope = None

\* --------------------------------------------------------------------------
\* C15 and C16
\* --------------------------------------------------------------------------
\* the values of the query parameters named key in an issued URL
QueryValues(url, key) ==
    {url.query[k].value : k \in {x \in 1..Len(url.query) : url.query[x].key = key}}

\* C15: any two calls of authorize_url on a client with the same scopes have
\* returned different states, and URLs with the same base and the same query
\* parameters in the same order except for the value of state; the URL of
\* each call has one state parameter, whose value is the state returned.
C15_StatesAreFreshAndEmbedded ==
    cmd.name = "authorize_url"
    => /\ \A i, j \in 1..Len(auth_urls) :
            i < j
            => /\ auth_urls[i].state # auth_urls[j].state
               /\ auth_urls[i].url.base = auth_urls[j].url.base
               /\ Len(auth_urls[i].url.query) = Len(auth_urls[j].url.query)
               /\ \A k \in 1..Len(auth_urls[i].url.query) :
                    /\ auth_urls[i].url.query[k].key = auth_urls[j].url.query[k].key
                    /\ auth_urls[i].url.query[k].key # "state"
                       => auth_urls[i].url.query[k] = auth_urls[j].url.query[k]
       /\ \A i \in 1..Len(auth_urls) :
            /\ QueryValues(auth_urls[i].url, "state") = {auth_urls[i].state}
            /\ Cardinality({k \in 1..Len(auth_urls[i].url.query) :
                              auth_urls[i].url.query[k].key = "state"}) = 1

\* authorize_url was called twice with the scopes offline and forum
C15_Witness ==
    /\ cmd.name = "authorize_url"
    /\ Len(cmd.scopes) = 2
    /\ Len(auth_urls) = 2
    /\ result = Ok(auth_urls[2])

\* C16: every request exchange_code and refresh have sent carries the client
\* id and secret as the user name and password of its Basic authorization
\* and in no other place: it has a method, a URL, the authorization and a
\* form, and the form has exactly grant_type=authorization_code, code and
\* redirect_uri for an exchange, grant_type=refresh_token and refresh_token
\* for a refresh; the redirect_uri is the one in the authorize URLs of the
\* same client.
C16_SecretOnlyInBasicAuth ==
    (cmd.name \in {"exchange_code", "refresh"})
    => \A n \in 1..Len(token_requests) :
         LET req == token_requests[n]
         IN  /\ DOMAIN req = {"method", "url", "basic_auth", "form"}
             /\ req.basic_auth = [username |-> cmd.oauth_client.client_id,
                                  password |-> cmd.oauth_client.client_secret]
             /\ cmd.name = "exchange_code"
                => /\ DOMAIN req.form = {"grant_type", "code", "redirect_uri"}
                   /\ req.form.grant_type = "authorization_code"
                   /\ req.form.code = cmd.code
                   /\ req.form.redirect_uri = cmd.oauth_client.redirect_uri
                   /\ \A scopes \in ScopeLists, i \in 1..Len(RandomTokens) :
                        QueryValues(authorize_url(cmd.oauth_client, scopes,
                                                  RandomToken(i)).url,
                                    "redirect_uri")
                          = {<<req.form.redirect_uri>>}
             /\ cmd.name = "refresh"
                => /\ DOMAIN req.form = {"grant_type", "refresh_token"}
                   /\ req.form.grant_type = "refresh_token"
                   /\ req.form.refresh_token = cmd.refresh_token

\* exchange_code of a client with another redirect URI has sent its request
C16_Witness ==
    /\ cmd.name = "exchange_code"
    /\ cmd.oauth_client.redirect_uri # RedirectUri
    /\ Len(token_requests) = 1
    /\ pc = "done"

\* --------------------------------------------------------------------------
\* C17
\* --------------------------------------------------------------------------
\* C17: the Debug output of a BasicAuth is the output of every BasicAuth with
\* the same user name, whatever its password, and that of an OAuth2Auth is
\* the output of every OAuth2Auth; in both the secret field (password,
\* access_token) is the marker [REDACTED].
C17_DebugDoesNotDependOnTheSecret ==
    (pc = "done" /\ cmd.name = "debug")
    => /\ result.kind = "Ok"
       /\ cmd.auth.kind = "Basic"
          => /\ \A p \in Secrets :
                  DebugBasicAuth(BasicAuth(cmd.auth.username, p)) = result.val
             /\ result.val.fields[2].name = "password"
             /\ result.val.fields[2].value = <<"\"", "[REDACTED]", "\"">>
             /\ Len(result.val.fields) = 2
       /\ cmd.auth.kind = "OAuth2"
          => /\ \A t \in Secrets : DebugOAuth2Auth(OAuth2Auth(t)) = result.val
             /\ result.val.fields[1].name = "access_token"
             /\ result.val.fields[1].value = <<"\"", "[REDACTED]", "\"">>
             /\ Len(result.val.fields) = 1

\* the Debug output of BasicAuth::new("bob", "s3cret") was produced
C17_Witness ==
    /\ pc = "done"
    /\ cmd.name = "debug"
    /\ cmd.auth = BasicAuth("bob", "s3cret")
    /\ result.kind = "Ok"


\* ---------------------------------------------------------------------
\* C18: in wait_for_oauth_callback the certificate is generated before
\* the port is bound, neither step is tried twice, and when the
\* certificate cannot be generated or encoded, or the port cannot be
\* bound, the wait has returned that error at once: the login is over
\* with that error, the listener is not open and no connection was
\* accepted.
CertOrBindFailed ==
    \/ cb_result.kind = "Other"
    \/ cb_result = Err("Io", "bind")

C18_CertThenBindAndFailuresAreFatal ==
    /\ certs <= 1
    /\ binds <= 1
    /\ binds = 1 => certs = 1 /\ cb_result.kind # "Other"
    /\ listener = "listening" => certs = 1 /\ binds = 1
    /\ cb_result.kind = "Other" => certs = 1 /\ binds = 0
    /\ cb_result = Err("Io", "bind") => certs = 1 /\ binds = 1
    /\ CertOrBindFailed =>
          /\ pc = "done"
          /\ result = cb_result
          /\ listener # "listening"
          /\ accepts = 0
          /\ hs_failed = 0
          /\ hs_ok = 0
          /\ reads = 0
          /\ token_requests = <<>>

C18_Witness ==
    /\ cb_result = Err("Io", "bind")
    /\ certs = 1
    /\ binds = 1
    /\ accepts = 0
    /\ pc = "done"


\* ---------------------------------------------------------------------
\* C19: the write of the success page is best-effort: once a code
\* parameter was found in the request line and the wait has returned, it
\* has returned that code, whether the page could be written or not.
C19_CodeReturnedWhateverTheWrite ==
    (CbReturned /\ IsSome(code)) => cb_result = Ok(Unwrap(code))


\* ---------------------------------------------------------------------
\* C20
\* ---------------------------------------------------------------------
\* The field names of the files of an upload, in order
FileFields ==
    <<<<"f", "i", "l", "e", "0">>, <<"f", "i", "l", "e", "1">>,
      <<"f", "i", "l", "e", "2">>, <<"f", "i", "l", "e", "3">>,
      <<"f", "i", "l", "e", "4">>, <<"f", "i", "l", "e", "5">>,
      <<"f", "i", "l", "e", "6">>, <<"f", "i", "l", "e", "7">>,
      <<"f", "i", "l", "e", "8">>, <<"f", "i", "l", "e", "9">>>>

UploadCalled == cmd.name = "image" /\ pc # "upload"

UploadRefused ==
    /\ pc = "done"
    /\ result.kind = "InvalidRequest"
    /\ posts = <<>>
    /\ responses = <<>>

\* One multipart POST to upload/image.json was sent, its form holding the
\* upload token and then the files as file0.. in input order
UploadPostedOnce ==
    /\ Len(posts) = 1
    /\ posts[1].method = "POST"
    /\ posts[1].path = "upload/image.json"
    /\ IsSome(posts[1].multipart)
    /\ LET form == Unwrap(posts[1].multipart)
           files == cmd.files
       IN  /\ Len(form) = Len(files) + 1
           /\ form[1].value = cmd.upload_token
           /\ \A i \in 1..Len(files) :
                /\ form[i + 1].name = FileFields[i]
                /\ form[i + 1].filename = Some(files[i].filename)
                /\ form[i + 1].value = files[i].bytes
                /\ form[i + 1].mime = files[i].content_type

AllContentTypesValid ==
    \A i \in 1..Len(cmd.files) :
       IsSome(cmd.files[i].content_type)
          => ValidMime(Unwrap(cmd.files[i].content_type))

\* C20 as stated: UploadApi::image called with zero files or with more than
\* 10 files returns InvalidRequest and sends no request; with 1 to 10 files
\* it sends exactly one multipart POST with the fields file0..file(n-1) in
\* input order.
C20_UploadAsStated ==
    UploadCalled =>
       IF Len(cmd.files) = 0 \/ Len(cmd.files) > 10
       THEN UploadRefused
       ELSE UploadPostedOnce

\* C20 as amended: the upload is refused with InvalidRequest, and nothing is
\* sent, for zero files, for more than 10 files and also for a file whose
\* content type is no valid MIME type; otherwise exactly one multipart POST
\* is sent with the fields file0..file(n-1) in input order.
C20_UploadAmended ==
    /\ Len(posts) <= 1
    /\ pc = "upload" => posts = <<>>
    /\ UploadCalled =>
          IF Len(cmd.files) = 0 \/ Len(cmd.files) > 10 \/ ~AllContentTypesValid
          THEN UploadRefused
          ELSE UploadPostedOnce

C20_Witness ==
    /\ UploadCalled
    /\ pc = "done"
    /\ Len(cmd.files) = 10
    /\ \E i \in 1..10 : IsSome(cmd.files[i].content_type)
    /\ Len(posts) = 1
    /\ result.kind = "Ok"


\* ---------------------------------------------------------------------
\* C21: a request carries the credentials of the client's authenticator
\* exactly when it is built in default auth mode: the requests of upload
\* image and upload image_status carry no Authorization header whatever the
\* authenticator, the requests of request_token and of the other endpoints
\* carry the Basic user name and password or the Bearer token of the client.
Unauthenticated == {"image", "image_status"}

CredentialsOf(auth) ==
    IF auth.kind = "Basic"
    THEN <<[scheme |-> "Basic", credentials |-> <<auth.username, auth.password>>]>>
    ELSE IF auth.kind = "OAuth2"
    THEN <<[scheme |-> "Bearer", credentials |-> <<auth.access_token>>]>>
    ELSE <<>>

C21_AuthorizationOnlyInDefaultMode ==
    \A i \in 1..Len(posts) :
       posts[i].authorization =
          IF cmd.name \in Unauthenticated THEN <<>> ELSE CredentialsOf(cmd.client.auth)

C21_Witness ==
    /\ Len(posts) = 1
    /\ cmd.name = "image_status"
    /\ cmd.client.auth.kind = "Basic"
    /\ posts[1].authorization = <<>>
    /\ posts[1].method = "GET"


\* ---------------------------------------------------------------------
\* C22
\* ---------------------------------------------------------------------
ApiAnswered ==
    /\ pc = "done"
    /\ Len(responses) = 1
    /\ responses[1].outcome = "response"

\* The retry-after header as whole seconds: absent when the header is
\* missing or is no integer
RetryAfterSeconds(h) == IF h = Some(<<"3", "0">>) THEN Some(30) ELSE None

\* The body an ApiStatus carries: the JSON value, or the raw text
CarriedBody(body) ==
    IF body.kind = "json" THEN body.content[1]
    ELSE IF body.kind = "text" THEN [raw |-> body.content[1]]
    ELSE [error |-> "Failed to read response body"]

\* The kinds of error send_json makes of a non-success status, leaving aside
\* what a NotModified carries
SendJsonErrorKinds ==
    ApiAnswered =>
       LET resp == responses[1]
       IN  IF IsSuccess(resp.status)
           THEN result.kind \notin {"NotModified", "RateLimited", "ApiStatus"}
           ELSE IF resp.status = 304 THEN result.kind = "NotModified"
           ELSE IF resp.status = 429
           THEN /\ result.kind = "RateLimited"
                /\ result.val[1].retry_after = RetryAfterSeconds(resp.headers.retry_after)
           ELSE /\ result.kind = "ApiStatus"
                /\ result.val[1].status = resp.status
                /\ result.val[1].body = CarriedBody(resp.body)

\* C22: for every non-success response send_json returns the one error kind
\* its status determines: 304 gives NotModified carrying the etag header
\* value, 429 gives RateLimited whose retry_after is the retry-after header
\* as whole seconds (absent when it is missing or no integer), any other
\* status gives ApiStatus with that status and the body; a success status
\* gives none of these kinds.
C22_ErrorKindByStatus ==
    /\ SendJsonErrorKinds
    /\ (ApiAnswered /\ responses[1].status = 304 /\ result.kind = "NotModified")
          => result.val[1].etag = responses[1].headers.etag


\* ---------------------------------------------------------------------
\* C23: collect_all_pages with max_pages = Some(m) calls fetch at most m
\* times whatever the server answers (never when m = 0, and then returns
\* the empty list), and every call of fetch asks for the page size
\* initial_page_size.
C23_AtMostMaxPagesFetches ==
    /\ \A i \in 1..Len(fetches) :
          fetches[i].page_size = Some(cmd.initial_page_size)
    /\ IsSome(cmd.max_pages) =>
          /\ Len(fetches) <= Unwrap(cmd.max_pages)
          /\ Unwrap(cmd.max_pages) = 0 =>
                /\ pc \in {"pages", "done"}
                /\ pc = "done" => result = Ok(<<>>)

C23_Witness ==
    /\ cmd.max_pages = Some(2)
    /\ cmd.server = None
    /\ pc = "done"
    /\ Len(fetches) = 2
    /\ Len(responses) = 2
    /\ responses[2].kind = "Ok"
    /\ responses[2].val.paginator.page < responses[2].val.paginator.last_page
    /\ result.kind = "Ok"

\* ---------------------------------------------------------------------
\* C24
\* ---------------------------------------------------------------------
\* The items of the first i answers, in order
RECURSIVE ItemsOfAnswers(_)
ItemsOfAnswers(i) ==
    IF i = 0 THEN <<>> ELSE ItemsOfAnswers(i - 1) \o responses[i].val.items

\* C24: collect_all_pages with max_pages = None, against a server that
\* reports the page it was asked for and a constant last_page L >= 1,
\* fetches the pages 1, 2, .., L once each in that order, then stops and
\* returns the items of all pages in that order; a fetch that fails ends it
\* at once with that error.
C24_FetchesEveryPageInOrder ==
    (cmd.max_pages = None /\ IsSome(cmd.server)) =>
       LET L == Unwrap(cmd.server)
       IN  /\ Len(fetches) <= L
           /\ \A i \in 1..Len(fetches) : fetches[i].page = Some(i)
           /\ pc = "pages" => Len(fetches) < L
           /\ result.kind # "Panic"
           /\ (pc = "done" /\ result.kind = "Ok") =>
                 /\ Len(fetches) = L
                 /\ Len(responses) = L
                 /\ result.val = ItemsOfAnswers(L)
           /\ \A i \in 1..Len(responses) :
                 responses[i].kind # "Ok" =>
                    /\ i = Len(responses)
                    /\ Len(fetches) = i
                    /\ pc = "done"
                    /\ result = responses[i]

C24_Witness ==
    /\ cmd.max_pages = None
    /\ cmd.server = Some(3)
    /\ pc = "done"
    /\ result.kind = "Ok"
    /\ Len(fetches) = 3
    /\ Len(result.val) = 4


\* ---------------------------------------------------------------------
\* C25: in wait_for_oauth_callback every failure but a failed TLS handshake
\* goes to the caller as an error and is not retried: each step either
\* moves on to the next one or ends the wait, and the login, with an error;
\* an I/O error of accept or of reading the request line ends it; a failed
\* handshake alone is swallowed, and another accept follows it.
WaitEndsWithError ==
    /\ pc' = "done"
    /\ cb_result'.kind \notin {"Pending", "Ok"}
    /\ result' = cb_result'
    /\ listener' # "listening"

AfterStep(step) ==
    IF step = "cert" THEN "bind"
    ELSE IF step = "bind" THEN "accept"
    ELSE IF step = "accept" THEN "handshake"
    ELSE IF step = "read" THEN "write"
    ELSE "exchange"

StepEndsOrMovesOn ==
    pc \in {"cert", "bind", "accept", "read", "write"}
       => \/ pc' = AfterStep(pc) /\ cb_result'.kind \in {"Pending", "Ok"}
          \/ WaitEndsWithError

HandshakeIsRetried ==
    pc = "handshake"
       => /\ cb_result' = Pending
          /\ result' = Pending
          /\ listener' = "listening"
          /\ \/ pc' = "read" /\ hs_ok' = hs_ok + 1 /\ hs_failed' = hs_failed
             \/ pc' = "accept" /\ hs_failed' = hs_failed + 1 /\ hs_ok' = hs_ok

C25_OnlyHandshakeFailuresAreRetried ==
    /\ [][StepEndsOrMovesOn]_vars
    /\ [][HandshakeIsRetried]_vars
    /\ [](cb_result \in {Err("Io", "accept"), Err("Io", "read_line")}
             => pc = "done" /\ result = cb_result /\ token_requests = <<>>)

C25_Witness ==
    /\ cb_result = Err("Io", "read_line")
    /\ hs_failed >= 1
    /\ hs_ok = 1
    /\ accepts = hs_failed + 1
    /\ pc = "done"


\* ---------------------------------------------------------------------
\* C26: auth login runs authorize_url, the browser, the callback wait,
\* exchange_code and the save of the config in this order; the config is
\* written only after exchange_code succeeded: when the wait or the
\* exchange fails no profile is created or changed and current_profile is
\* unchanged; on success the named profile holds the exchanged token and is
\* the current profile; a browser that cannot be opened does not end the
\* login.
LoginOrder ==
    /\ Len(auth_urls) <= 1
    /\ pc = "login" => auth_urls = <<>>
    /\ (certs > 0 \/ binds > 0 \/ accepts > 0 \/ cb_result.kind # "Pending")
          => Len(auth_urls) = 1 /\ pc \notin {"login", "browser"}
    /\ token_requests # <<>> => cb_result.kind = "Ok" /\ Len(token_requests) = 1
    /\ responses # <<>> => Len(token_requests) = 1 /\ Len(responses) = 1
    /\ (saves > 0 \/ disk # EmptyConfig)
          => /\ saves = 1
             /\ Len(responses) = 1
             /\ exchange_code(responses[1], now).kind = "Ok"

LoginOutcome ==
    pc = "done" =>
       IF result.kind = "Ok"
       THEN /\ Len(responses) = 1
            /\ exchange_code(responses[1], now).kind = "Ok"
            /\ disk.current_profile = Some(cmd.profile_name)
            /\ \A n \in ProfileNames :
                  disk.profiles[n] =
                     IF n = cmd.profile_name
                     THEN Some([type |-> "OAuth2", client_id |-> cmd.client_id,
                                client_secret |-> cmd.client_secret,
                                token |-> exchange_code(responses[1], now).val])
                     ELSE None
       ELSE disk = EmptyConfig /\ saves = 0

BrowserDoesNotAbort ==
    pc = "browser" => pc' = "cert" /\ result' = Pending /\ cb_result' = Pending

C26_LoginOrderAndSave ==
    /\ [](LoginOrder /\ LoginOutcome)
    /\ [][BrowserDoesNotAbort]_vars
    /\ [][disk' # disk => pc = "exchange" /\ pc' = "done" /\ result'.kind = "Ok"]_vars

C26_Witness ==
    /\ pc = "done"
    /\ result.kind = "Ok"
    /\ saves = 1
    /\ disk.current_profile = Some(cmd.profile_name)
    /\ Len(auth_urls) = 1
    /\ Len(token_requests) = 1
    /\ hs_failed >= 1


\* ---------------------------------------------------------------------
\* C27: from an empty config, after any sequence of auth basic, auth login,
\* auth use, auth delete and auth refresh, each succeeding or failing,
\* current_profile is unset or names a profile that exists; deleting the
\* current profile unsets current_profile, deleting another one leaves it
\* as it was.
CurrentProfileExists ==
    IsSome(disk.current_profile) => IsSome(disk.profiles[Unwrap(disk.current_profile)])

DeleteKeepsCurrentSound ==
    (pc = "auth_delete" /\ disk' # disk) =>
       /\ disk'.profiles[cmd.target] = None
       /\ \A n \in ProfileNames \ {cmd.target} : disk'.profiles[n] = disk.profiles[n]
       /\ disk'.current_profile =
             IF disk.current_profile = Some(cmd.target) THEN None
             ELSE disk.current_profile

C27_CurrentProfileExists ==
    /\ []CurrentProfileExists
    /\ [][DeleteKeepsCurrentSound]_vars

C27_Witness ==
    /\ pc = "done"
    /\ cmd.name = "delete"
    /\ result.kind = "Ok"
    /\ saves = 1
    /\ disk.current_profile = None
    /\ disk.profiles[cmd.target] = None
    /\ \E n \in ProfileNames : IsSome(disk.profiles[n])


\* ---------------------------------------------------------------------
\* C28: a token refresh, in build_client or in auth refresh, changes nothing
\* in the stored config but the token of the profile it refreshes: the
\* other profiles, the client id and secret of that profile and
\* current_profile stay; when the refresh request fails the stored config
\* does not change at all.
OnlyTheTokenChanges ==
    disk' # disk =>
       /\ disk'.current_profile = disk.current_profile
       /\ \A n \in ProfileNames :
             disk'.profiles[n] # disk.profiles[n] =>
                /\ n = RefreshedName
                /\ IsSome(disk.profiles[n]) /\ IsSome(disk'.profiles[n])
                /\ [Unwrap(disk'.profiles[n]) EXCEPT !.token = Unwrap(disk.profiles[n]).token]
                      = Unwrap(disk.profiles[n])

FailedRefreshChangesNothing ==
    (Len(responses') = Len(responses) + 1
       /\ refresh(responses'[Len(responses')], now).kind # "Ok")
       => disk' = disk /\ saves' = saves

C28_RefreshChangesOnlyTheToken ==
    /\ [][OnlyTheTokenChanges]_vars
    /\ [][FailedRefreshChangesNothing]_vars

C28_Witness ==
    /\ pc = "done"
    /\ cmd.name = "refresh"
    /\ result.kind = "Ok"
    /\ saves = 1
    /\ IsSome(disk.current_profile)
    /\ disk.current_profile # RefreshProfileName(cmd, cli, disk)
    /\ \A n \in ProfileNames : IsSome(disk.profiles[n])


\* ---------------------------------------------------------------------
\* C29: for a fixed token and a fixed instant is_expired is monotone in the
\* skew: when it is true for a skew it is true for every larger skew of
\* std::time::Duration, those that do not convert to time::Duration included
C29_ExpiredIsMonotoneInSkew ==
    (pc = "done" /\ cmd.name = "is_expired")
    => \A s \in Skews :
          (s <= cmd.skew /\ is_expired(cmd.token, s, now) = Ok(TRUE))
          => result = Ok(TRUE)


\* ---------------------------------------------------------------------
\* C30: build_client takes its credentials in a fixed order: with both
\* --access-key and --personal-key it builds a Basic client from them, the
\* config not read and nothing refreshed; otherwise it uses the profile
\* named by --profile and, only without --profile, the current profile; a
\* --profile that names no stored profile gives the missing-credentials
\* error, whatever the current profile is.
BothKeysGiven == IsSome(cli.access_key) /\ IsSome(cli.personal_key)

AuthOfProfile(profile) ==
    IF profile.type = "Basic"
    THEN BasicAuth(profile.access_key, profile.personal_key)
    ELSE OAuth2Auth(profile.token.access_token)

NamedOrCurrent == IF IsSome(cli.profile) THEN cli.profile ELSE disk.current_profile

NoSuchProfile ==
    NamedOrCurrent = None \/ disk.profiles[Unwrap(NamedOrCurrent)] = None

C30_CredentialPriority ==
    (pc = "done" /\ cmd.name = "whoami")
    => IF BothKeysGiven
       THEN /\ result.kind \in {"Ok", "Api"}
            /\ result.kind = "Ok"
                 => client = Some([auth |-> BasicAuth(Unwrap(cli.access_key),
                                                      Unwrap(cli.personal_key))])
            /\ token_requests = <<>>
            /\ responses = <<>>
            /\ saves = 0
       ELSE /\ NoSuchProfile
                 => /\ result \in {Err("MissingCredentials", NoCredentialsMessage),
                                   Err("Config", "load")}
                    /\ client = None
                    /\ token_requests = <<>>
            /\ result.kind = "Ok"
                 => /\ ~NoSuchProfile
                    /\ client = Some([auth |->
                          AuthOfProfile(Unwrap(disk.profiles[Unwrap(NamedOrCurrent)]))])

C30_Witness ==
    /\ pc = "done"
    /\ cmd.name = "whoami"
    /\ ~BothKeysGiven
    /\ IsSome(cli.profile)
    /\ disk.profiles[Unwrap(cli.profile)] = None
    /\ IsSome(disk.current_profile)
    /\ result = Err("MissingCredentials", NoCredentialsMessage)

====
